---- MODULE Spec2Model ----
(***************************************************************************)
(* A model of dwave::presolve::PresolverImpl<double, int, double>          *)
(* (src/dwave/preprocessing/src/presolveimpl.hpp): the normalization       *)
(* suite, the six reduction techniques, the presolve driver and the        *)
(* transform journal of the ModelView.                                     *)
(*                                                                         *)
(* Numbers.  A bias, a bound or a sample value is a double.  It is         *)
(* modelled by an exact fraction <<n, d>> in lowest terms with d > 0; the  *)
(* inputs are small integers and the only divisors are the powers of two   *)
(* in Coefs, so every value the model computes is a dyadic fraction that a *)
(* double holds exactly.  <<0, 0>> is NaN; <<1, 0>> and <<-1, 0>> stand    *)
(* for +1.0e30 and -1.0e30 (INF of the source), which exceed every finite  *)
(* value of the model.                                                     *)
(***************************************************************************)
EXTENDS Integers, Sequences, FiniteSets, TLC

VARIABLES
    varinfo,      \* model_: per variable [vartype, lb, ub]
    objective,    \* model_.objective
    constraints,  \* model_.constraints()
    transforms,   \* model_.transforms_
    detached,     \* detached_
    normalized,   \* normalized_
    techniques,   \* techniques
    asserts,      \* whether every assert evaluated so far held
    original,     \* the model the presolver was constructed from
    pre,          \* the flags when the last call started
    last,         \* the last call: its name, outcome, return value, whether it changed the model
    running       \* the presolve() call in progress: its position and its locals

vars == <<varinfo, objective, constraints, transforms, detached, normalized,
          techniques, asserts, original, pre, last, running>>

----------------------------------------------------------------------------
(* Doubles as exact fractions *)

Abs(i) == IF i < 0 THEN -i ELSE i

RECURSIVE GCD(_, _)
GCD(a, b) == IF b = 0 THEN a ELSE GCD(b, a % b)

\* the fraction n/d (d # 0) in lowest terms with a positive denominator
Frac(n, d) ==
    LET g == GCD(Abs(n), Abs(d))
        s == IF d < 0 THEN -1 ELSE 1
    IN  <<(s * n) \div g, (s * d) \div g>>

R(i) == <<i, 1>>
NAN == <<0, 0>>
INF == <<1, 0>>
NEG_INF == <<-1, 0>>

isnan(x) == x = NAN
IsHuge(x) == x[2] = 0 /\ x[1] # 0
IsFinite(x) == x[2] > 0

\* x < y as the double comparison decides it (false when either is NaN)
Lt(x, y) ==
    IF isnan(x) \/ isnan(y) THEN FALSE
    ELSE IF IsHuge(x) THEN x[1] < 0 /\ y # x
    ELSE IF IsHuge(y) THEN y[1] > 0
    ELSE x[1] * y[2] < y[1] * x[2]
Gt(x, y) == Lt(y, x)
Le(x, y) == ~isnan(x) /\ ~isnan(y) /\ ~Lt(y, x)
Ge(x, y) == Le(y, x)
\* x == y and x != y of the source (NaN differs from everything)
Eq(x, y) == ~isnan(x) /\ ~isnan(y) /\ x = y
Ne(x, y) == ~Eq(x, y)
\* a double used as a condition: if (x)
Truthy(x) == Ne(x, R(0))

Neg(x) == IF x[2] = 0 THEN <<-x[1], 0>> ELSE <<-x[1], x[2]>>
\* a value of magnitude 1e30 absorbs every finite value of the model
Add(x, y) ==
    IF isnan(x) \/ isnan(y) THEN NAN
    ELSE IF IsHuge(x) THEN (IF IsHuge(y) /\ y # x THEN R(0) ELSE x)
    ELSE IF IsHuge(y) THEN y
    ELSE Frac(x[1] * y[2] + y[1] * x[2], x[2] * y[2])
Sub(x, y) == Add(x, Neg(y))
Sign(x) == IF x[1] > 0 THEN 1 ELSE IF x[1] < 0 THEN -1 ELSE 0
Mul(x, y) ==
    IF isnan(x) \/ isnan(y) THEN NAN
    ELSE IF IsHuge(x) \/ IsHuge(y)
         THEN (IF Sign(x) * Sign(y) = 0 THEN R(0) ELSE <<Sign(x) * Sign(y), 0>>)
    ELSE Frac(x[1] * y[1], x[2] * y[2])
\* x / y for a finite y (a division by zero gives NaN or an infinity)
Div(x, y) ==
    IF isnan(x) \/ isnan(y) THEN NAN
    ELSE IF y[1] = 0 THEN (IF Sign(x) = 0 THEN NAN ELSE <<Sign(x), 0>>)
    ELSE IF IsHuge(x) THEN <<Sign(x) * Sign(y), 0>>
    ELSE Frac(x[1] * y[2], x[2] * y[1])

\* std::floor and std::ceil
Floor(x) == IF x[2] = 0 THEN x ELSE R(x[1] \div x[2])
Ceil(x) == IF x[2] = 0 THEN x ELSE R(-((-x[1]) \div x[2]))
\* std::max(a, b) is (a < b) ? b : a and std::min(a, b) is (b < a) ? b : a
Max(a, b) == IF Lt(a, b) THEN b ELSE a
Min(a, b) == IF Lt(b, a) THEN b ELSE a
RAbs(x) == IF x[1] < 0 THEN Neg(x) ELSE x

\* x > num/den for positive integers num, den, without forming a product
\* beyond the integer range: x[1]*den > num*x[2] iff x[1] > (num*x[2]) \div den
GtFrac(x, num, den) ==
    IF isnan(x) THEN FALSE
    ELSE IF IsHuge(x) THEN x[1] > 0
    ELSE x[1] > (num * x[2]) \div den
\* x < num/den, likewise: x[1]*den < num*x[2]
LtFrac(x, num, den) ==
    IF isnan(x) THEN FALSE
    ELSE IF IsHuge(x) THEN x[1] < 0
    ELSE LET p == num * x[2]
         IN  x[1] < p \div den \/ (x[1] = p \div den /\ p % den # 0)
\* x > k for a positive integer k
GtInt(x, k) ==
    IF isnan(x) THEN FALSE
    ELSE IF IsHuge(x) THEN x[1] > 0
    ELSE LET f == x[1] \div x[2] IN f > k \/ (f = k /\ x[1] % x[2] # 0)

----------------------------------------------------------------------------
(* The constrained quadratic model the presolver holds                    *)
(*                                                                         *)
(* Variable v of the source (0-based) is position v + 1 of varinfo, and a  *)
(* journal record's v is that position.  An expression is                  *)
(*   [variables |-> the variables in insertion order,                      *)
(*    linear    |-> their linear biases, in the same order,                *)
(*    quadratic |-> a function from the pairs <<u, v>>, u <= v, that       *)
(*                  interact to their biases,                              *)
(*    offset    |-> the constant term];                                    *)
(* a constraint adds sense, rhs, soft and discrete.                        *)

SeqRemove(s, i) == [j \in 1..(Len(s) - 1) |-> IF j < i THEN s[j] ELSE s[j + 1]]
SeqInsert(s, i, x) ==
    [j \in 1..(Len(s) + 1) |-> IF j < i THEN s[j] ELSE IF j = i THEN x ELSE s[j - 1]]
Range(s) == {s[i] : i \in DOMAIN s}

Pair(u, v) == IF u <= v THEN <<u, v>> ELSE <<v, u>>

\* position of v in expression.variables(), 0 when v is not in the expression
IndexOf(e, v) ==
    IF \E i \in DOMAIN e.variables : e.variables[i] = v
    THEN CHOOSE i \in DOMAIN e.variables : e.variables[i] = v
    ELSE 0

num_variables(e) == Len(e.variables)
linear(e, v) == IF IndexOf(e, v) = 0 THEN R(0) ELSE e.linear[IndexOf(e, v)]
has_interaction(e, u, v) == Pair(u, v) \in DOMAIN e.quadratic
quadratic(e, u, v) == IF has_interaction(e, u, v) THEN e.quadratic[Pair(u, v)] ELSE R(0)
num_interactions(e, v) == Cardinality({p \in DOMAIN e.quadratic : p[1] = v \/ p[2] = v})
is_linear(e) == DOMAIN e.quadratic = {}

\* the expression with v among its variables (a new one gets linear bias 0)
WithVariable(e, v) ==
    IF IndexOf(e, v) # 0 THEN e
    ELSE [e EXCEPT !.variables = Append(@, v), !.linear = Append(@, R(0))]

set_linear(e, v, bias) ==
    LET e1 == WithVariable(e, v)
    IN  [e1 EXCEPT !.linear[IndexOf(e1, v)] = bias]

\* Expression::add_quadratic for u # v
add_quadratic(e, u, v, bias) ==
    LET e1 == WithVariable(WithVariable(e, u), v)
        p == Pair(u, v)
    IN  [e1 EXCEPT !.quadratic =
            [q \in DOMAIN e1.quadratic \cup {p} |->
                IF q = p THEN Add(quadratic(e1, u, v), bias) ELSE e1.quadratic[q]]]

remove_interaction(e, u, v) ==
    [e EXCEPT !.quadratic = [q \in DOMAIN e.quadratic \ {Pair(u, v)} |-> e.quadratic[q]]]

\* Expression::remove_variable: v, its linear bias and its interactions leave
\* the expression; a variable that is not in the expression changes nothing
remove_variable(e, v) ==
    LET i == IndexOf(e, v)
    IN  IF i = 0 THEN e
        ELSE [e EXCEPT !.variables = SeqRemove(@, i),
                       !.linear = SeqRemove(@, i),
                       !.quadratic = [q \in {p \in DOMAIN e.quadratic : p[1] # v /\ p[2] # v}
                                        |-> e.quadratic[q]]]

\* the labels above v move down by one when the model removes variable v
Reindex(e, v) ==
    LET down(u) == IF u > v THEN u - 1 ELSE u
    IN  [e EXCEPT !.variables = [i \in DOMAIN e.variables |-> down(e.variables[i])],
                  !.quadratic = [q \in {<<down(p[1]), down(p[2])>> : p \in DOMAIN e.quadratic}
                                   |-> e.quadratic[CHOOSE p \in DOMAIN e.quadratic :
                                                      <<down(p[1]), down(p[2])>> = q]]]

\* QuadraticModelBase::substitute_variable: v becomes multiplier * v + offset
\* (v has no self-loop: a SPIN variable never has one, and a variable is fixed
\* only after normalization removed the self-loops)
substitute_variable(e, v, multiplier, offset) ==
    IF IndexOf(e, v) = 0 THEN e
    ELSE
      LET a == linear(e, v)
          nbr(u) == u # v /\ has_interaction(e, u, v)
      IN  [e EXCEPT
            !.offset = Add(@, Mul(a, offset)),
            !.linear = [i \in DOMAIN e.linear |->
                          IF e.variables[i] = v THEN Mul(e.linear[i], multiplier)
                          ELSE IF nbr(e.variables[i])
                               THEN Add(e.linear[i], Mul(quadratic(e, e.variables[i], v), offset))
                          ELSE e.linear[i]],
            !.quadratic = [q \in DOMAIN e.quadratic |->
                          IF q[1] = v \/ q[2] = v THEN Mul(e.quadratic[q], multiplier)
                          ELSE e.quadratic[q]]]

\* Constraint::scale: biases, offset and rhs times the scalar; a negative
\* scalar turns LE into GE and GE into LE
scale(c, scalar) ==
    [c EXCEPT
        !.linear = [i \in DOMAIN c.linear |-> Mul(c.linear[i], scalar)],
        !.quadratic = [q \in DOMAIN c.quadratic |-> Mul(c.quadratic[q], scalar)],
        !.offset = Mul(@, scalar),
        !.rhs = Mul(@, scalar),
        !.sense = IF Lt(scalar, R(0))
                  THEN (IF @ = "LE" THEN "GE" ELSE IF @ = "GE" THEN "LE" ELSE @)
                  ELSE @]

shares_variables(c1, c2) == Range(c1.variables) \cap Range(c2.variables) # {}

----------------------------------------------------------------------------
(* ModelView: the model m = [varinfo, objective, constraints, transforms]  *)

Transform(kind, v, value, multiplier, offset) ==
    [kind |-> kind, v |-> v, value |-> value, multiplier |-> multiplier, offset |-> offset]

num_model_variables(m) == Len(m.varinfo)
num_constraints(m) == Len(m.constraints)
vartype(m, v) == m.varinfo[v].vartype
lower_bound(m, v) == m.varinfo[v].lb
upper_bound(m, v) == m.varinfo[v].ub
set_lower_bound(m, v, lb) == [m EXCEPT !.varinfo[v].lb = lb]
set_upper_bound(m, v, ub) == [m EXCEPT !.varinfo[v].ub = ub]
remove_constraint(m, c) == [m EXCEPT !.constraints = SeqRemove(@, c)]

\* every expression of the model rewritten by F
MapExpressions(m, F(_)) ==
    [m EXCEPT !.objective = F(@),
              !.constraints = [c \in DOMAIN m.constraints |-> F(m.constraints[c])]]

\* add_variable without its journal entry
add_variable_unjournaled(m, vt, lb, ub) ==
    [m EXCEPT !.varinfo = Append(@, [vartype |-> vt, lb |-> lb, ub |-> ub])]

\* the new variable is the last one; the journal gets ADD{v}
add_variable(m, vt, lb, ub) ==
    [m EXCEPT !.varinfo = Append(@, [vartype |-> vt, lb |-> lb, ub |-> ub]),
              !.transforms = Append(@, Transform("ADD", Len(m.varinfo) + 1, NAN, NAN, NAN))]

\* change_vartype without its journal entry
change_vartype_unjournaled(m, vt, v) ==
    LET F(e) == substitute_variable(e, v, R(2), R(-1))
        m1 == MapExpressions(m, F)
    IN  [m1 EXCEPT !.varinfo[v] = [vartype |-> vt, lb |-> R(0), ub |-> R(1)]]

\* SPIN to BINARY: the journal gets SUBSTITUTE{v, 2, -1}, then the model
\* substitutes 2 v - 1 for v in every expression and v becomes BINARY in [0, 1]
change_vartype(m, vt, v) ==
    LET F(e) == substitute_variable(e, v, R(2), R(-1))
        m1 == MapExpressions(m, F)
    IN  [m1 EXCEPT !.varinfo[v] = [vartype |-> vt, lb |-> R(0), ub |-> R(1)],
                   !.transforms = Append(@, Transform("SUBSTITUTE", v, NAN, R(2), R(-1)))]

\* the model substitutes the value for v in every expression and removes v
\* (the variables above v move down by one); the journal gets FIX{v, value}
fix_variable(m, v, assignment) ==
    LET F(e) == Reindex(remove_variable(substitute_variable(e, v, R(0), assignment), v), v)
        m1 == MapExpressions(m, F)
    IN  [m1 EXCEPT !.varinfo = SeqRemove(@, v),
                   !.transforms = Append(@, Transform("FIX", v, assignment, NAN, NAN))]

\* add_linear_constraint({u, v}, {+1, -1}, EQ, 0)
add_linear_constraint(m, variables, biases, sense, rhs) ==
    [m EXCEPT !.constraints = Append(@,
        [variables |-> variables, linear |-> biases, quadratic |-> <<>>,
         offset |-> R(0), sense |-> sense, rhs |-> rhs, soft |-> FALSE, discrete |-> FALSE])]

\* ModelView::restore: the journal undone back to front.  The result is
\* [ok, sample]; ok is false when a record's position lies outside the sample
\* (undefined behaviour in the source).
RECURSIVE restore_from(_, _, _)
restore_from(ts, k, sample) ==
    IF k = 0 THEN [ok |-> TRUE, sample |-> sample]
    ELSE
      LET t == ts[k]
      IN  IF t.kind = "FIX"
          THEN IF t.v \in 1..(Len(sample) + 1)
               THEN restore_from(ts, k - 1, SeqInsert(sample, t.v, t.value))
               ELSE [ok |-> FALSE, sample |-> sample]
          ELSE IF t.v \notin 1..Len(sample) THEN [ok |-> FALSE, sample |-> sample]
          ELSE IF t.kind = "SUBSTITUTE"
               THEN restore_from(ts, k - 1,
                        [sample EXCEPT ![t.v] = Add(Mul(@, t.multiplier), t.offset)])
          ELSE restore_from(ts, k - 1, SeqRemove(sample, t.v))

restore(ts, sample) == restore_from(ts, Len(ts), sample)

----------------------------------------------------------------------------
(* The normalization suite *)

\* the check without its last test, of the offset
ExpressionHasNanBias(e) ==
    \/ \E q \in DOMAIN e.quadratic : isnan(e.quadratic[q])
    \/ \E i \in DOMAIN e.linear : isnan(e.linear[i])

\* normalization_check_nan(expression) throws
ExpressionHasNan(e) ==
    \/ \E q \in DOMAIN e.quadratic : isnan(e.quadratic[q])
    \/ \E i \in DOMAIN e.linear : isnan(e.linear[i])
    \/ isnan(e.offset)

\* normalization_check_nan() throws InvalidModelError("biases cannot be NAN")
normalization_check_nan(m) ==
    \/ ExpressionHasNan(m.objective)
    \/ \E c \in DOMAIN m.constraints : ExpressionHasNan(m.constraints[c])

\* [m, ret]
RECURSIVE spin_to_binary_from(_, _, _)
spin_to_binary_from(m, v, changes) ==
    IF v > num_model_variables(m) THEN [m |-> m, ret |-> changes]
    ELSE IF vartype(m, v) = "SPIN"
         THEN spin_to_binary_from(change_vartype(m, "BINARY", v), v + 1, TRUE)
         ELSE spin_to_binary_from(m, v + 1, changes)

normalization_spin_to_binary(m) == spin_to_binary_from(m, 1, FALSE)

\* the offset moved into the rhs, but not cleared
normalization_remove_offset_kept(c) ==
    IF Truthy(c.offset)
    THEN [c |-> [c EXCEPT !.rhs = Sub(c.rhs, c.offset)], ret |-> TRUE]
    ELSE [c |-> c, ret |-> FALSE]

normalization_remove_offset(c) ==
    IF Truthy(c.offset)
    THEN [c |-> [c EXCEPT !.rhs = Sub(c.rhs, c.offset), !.offset = R(0)], ret |-> TRUE]
    ELSE [c |-> c, ret |-> FALSE]

normalization_remove_offsets(m) ==
    [m |-> [m EXCEPT !.constraints =
                [c \in DOMAIN m.constraints |-> normalization_remove_offset(m.constraints[c]).c]],
     ret |-> \E c \in DOMAIN m.constraints : normalization_remove_offset(m.constraints[c]).ret]

\* the flip of every constraint that is not LE
normalization_flip_constraint_not_le(c) ==
    IF c.sense # "LE"
    THEN [c |-> scale(c, R(-1)), ret |-> TRUE]
    ELSE [c |-> c, ret |-> FALSE]

normalization_flip_constraint(c) ==
    IF c.sense = "GE"
    THEN [c |-> scale(c, R(-1)), ret |-> TRUE]
    ELSE [c |-> c, ret |-> FALSE]

normalization_flip_constraints(m) ==
    [m |-> [m EXCEPT !.constraints =
                [c \in DOMAIN m.constraints |-> normalization_flip_constraint(m.constraints[c]).c]],
     ret |-> \E c \in DOMAIN m.constraints : normalization_flip_constraint(m.constraints[c]).ret]

\* expression k of the model: 0 is the objective, c >= 1 is constraint c
GetExpr(m, k) == IF k = 0 THEN m.objective ELSE m.constraints[k]
SetExpr(m, k, e) ==
    IF k = 0 THEN [m EXCEPT !.objective = e] ELSE [m EXCEPT !.constraints[k] = e]

\* the lambda substitute of normalization_remove_self_loops on expression k,
\* from its i-th variable on; n is the variable count when the lambda started.
\* st = [m, mapping]
RECURSIVE substitute_from(_, _, _, _)
substitute_from(st, k, i, n) ==
    IF i > n THEN st
    ELSE
      LET e == GetExpr(st.m, k)
          v == e.variables[i]
      IN  IF ~has_interaction(e, v, v) THEN substitute_from(st, k, i + 1, n)
          ELSE
            LET seen == v \in DOMAIN st.mapping
                m1 == IF seen THEN st.m
                      ELSE add_variable(st.m, vartype(st.m, v), lower_bound(st.m, v),
                                        upper_bound(st.m, v))
                new == IF seen THEN st.mapping[v] ELSE num_model_variables(m1)
                mapping1 == [u \in DOMAIN st.mapping \cup {v} |->
                                IF u = v THEN new ELSE st.mapping[u]]
                e1 == remove_interaction(add_quadratic(e, v, new, quadratic(e, v, v)), v, v)
            IN  substitute_from([m |-> SetExpr(m1, k, e1), mapping |-> mapping1], k, i + 1, n)

RECURSIVE substitute_all(_, _)
substitute_all(st, k) ==
    IF k > num_constraints(st.m) THEN st
    ELSE substitute_all(substitute_from(st, k, 1, num_variables(GetExpr(st.m, k))), k + 1)

RECURSIVE add_equalities(_, _, _, _)
add_equalities(m, mapping, order, i) ==
    IF i > Len(order) THEN m
    ELSE add_equalities(
            add_linear_constraint(m, <<order[i], mapping[order[i]]>>, <<R(1), R(-1)>>, "EQ", R(0)),
            mapping, order, i + 1)

\* the variables that have a self-loop in some expression: the keys of mapping
SelfLoopVars(m) ==
    {v \in 1..num_model_variables(m) :
        \E k \in 0..num_constraints(m) : has_interaction(GetExpr(m, k), v, v)}

Perms(S) == {f \in [1..Cardinality(S) -> S] : \A x \in S : \E i \in DOMAIN f : f[i] = x}

\* the expressions rewritten, the equalities not appended
normalization_remove_self_loops_unlinked(m, order) ==
    LET st == substitute_all([m |-> m, mapping |-> <<>>], 0)
    IN  [m |-> st.m, ret |-> DOMAIN st.mapping # {}]

\* order is the order in which the unordered_map mapping is iterated
normalization_remove_self_loops(m, order) ==
    LET st == substitute_all([m |-> m, mapping |-> <<>>], 0)
    IN  [m |-> add_equalities(st.m, st.mapping, order, 1),
         ret |-> DOMAIN st.mapping # {}]

\* Constraint::is_onehot: linear, at least two variables, an equality without
\* offset, every variable BINARY and every linear bias equal to the rhs
is_onehot(m, c) ==
    /\ is_linear(c)
    /\ num_variables(c) >= 2
    /\ c.sense = "EQ"
    /\ ~Truthy(c.offset)
    /\ \A i \in DOMAIN c.variables : vartype(m, c.variables[i]) = "BINARY"
    /\ \A i \in DOMAIN c.linear : Eq(c.linear[i], c.rhs)

mark_discrete(m, c, mark) == [m EXCEPT !.constraints[c].discrete = mark]

\* the first loop of normalization_remove_invalid_markers: [m, ret, discrete]
RECURSIVE markers_collect(_, _)
markers_collect(st, c) ==
    IF c > num_constraints(st.m) THEN st
    ELSE IF ~st.m.constraints[c].discrete THEN markers_collect(st, c + 1)
    ELSE IF is_onehot(st.m, st.m.constraints[c])
         THEN markers_collect([st EXCEPT !.discrete = Append(@, c)], c + 1)
         ELSE markers_collect([st EXCEPT !.m = mark_discrete(@, c, FALSE), !.ret = TRUE], c + 1)

\* the overlap loop
RECURSIVE markers_overlap(_, _)
markers_overlap(st, i) ==
    IF i > Len(st.discrete) THEN st
    ELSE
      LET constraint == st.m.constraints[st.discrete[i]]
          overlap == \E j \in (i + 1)..Len(st.discrete) :
                        shares_variables(st.m.constraints[st.discrete[j]], constraint)
      IN  IF overlap
          THEN markers_overlap([m |-> mark_discrete(st.m, st.discrete[i], FALSE),
                                ret |-> TRUE,
                                discrete |-> SeqRemove(st.discrete, i)], i)
          ELSE markers_overlap(st, i + 1)

normalization_remove_invalid_markers(m) ==
    LET st == markers_overlap(markers_collect([m |-> m, ret |-> FALSE, discrete |-> <<>>], 1), 1)
    IN  [m |-> st.m, ret |-> st.ret]

\* normalize() past the detached_ test: [m, ret, err]
normalize(m, order) ==
    IF normalization_check_nan(m)
    THEN [m |-> m, ret |-> FALSE, err |-> "biases cannot be NAN"]
    ELSE
      LET s1 == normalization_spin_to_binary(m)
          s2 == normalization_remove_offsets(s1.m)
          s3 == normalization_remove_self_loops(s2.m, order)
          s4 == normalization_flip_constraints(s3.m)
          s5 == normalization_remove_invalid_markers(s4.m)
      IN  [m |-> s5.m,
           ret |-> s1.ret \/ s2.ret \/ s3.ret \/ s4.ret \/ s5.ret,
           err |-> ""]

----------------------------------------------------------------------------
(* The reduction techniques.  A technique yields [m, ret, err, af]: the    *)
(* model as it leaves it, its return value, err = "infeasible" when it     *)
(* threw std::logic_error("infeasible") (m is then the model at that       *)
(* moment), and af, whether one of its asserts was false.  The techniques  *)
(* run as a build with NDEBUG runs them, past a false assert; a build      *)
(* without NDEBUG runs the same steps up to the first false assert and     *)
(* aborts there.                                                           *)

\* remove_zero_biases(expression): [e, ret]
remove_zero_biases(e) ==
    LET empty_interactions == {q \in DOMAIN e.quadratic : ~Truthy(e.quadratic[q])}
        e1 == [e EXCEPT !.quadratic = [q \in DOMAIN e.quadratic \ empty_interactions
                                          |-> e.quadratic[q]]]
        empty_variables == {v \in Range(e1.variables) :
                               ~Truthy(linear(e1, v)) /\ num_interactions(e1, v) = 0}
        keep == SelectSeq([i \in DOMAIN e1.variables |-> i],
                          LAMBDA i : e1.variables[i] \notin empty_variables)
    IN  [e |-> [e1 EXCEPT !.variables = [j \in DOMAIN keep |-> e1.variables[keep[j]]],
                          !.linear = [j \in DOMAIN keep |-> e1.linear[keep[j]]]],
         ret |-> empty_interactions # {} \/ empty_variables # {}]

technique_remove_zero_biases(m) ==
    [m |-> [m EXCEPT !.objective = remove_zero_biases(@).e,
                     !.constraints = [c \in DOMAIN m.constraints |->
                                         remove_zero_biases(m.constraints[c]).e]],
     ret |-> \/ remove_zero_biases(m.objective).ret
             \/ \E c \in DOMAIN m.constraints : remove_zero_biases(m.constraints[c]).ret,
     err |-> "", af |-> FALSE]

\* the denominators of the tolerances of remove_small_biases, each a
\* reciprocal: 1/CONDITIONAL_REMOVAL_BIAS_LIMIT = 1e3,
\* 1/(CONDITIONAL_REMOVAL_LIMIT * FEASIBILITY_TOLERANCE) = 1e8,
\* 1/UNCONDITIONAL_REMOVAL_BIAS_LIMIT = 1e10 (beyond the integers of the
\* model: only a zero bias is below it), 1/(SUM_REDUCTION_LIMIT *
\* FEASIBILITY_TOLERANCE) = 1e7
CONDITIONAL_REMOVAL_BIAS_LIMIT_DEN == 1000
CONDITIONAL_REMOVAL_LIMIT_DEN == 100000000
SUM_REDUCTION_LIMIT_DEN == 10000000

\* |a| < 1e-10: every nonzero fraction of the model has |a| >= 2^-31 > 1e-10
BelowUnconditionalLimit(a) == IsFinite(a) /\ a[1] = 0

\* the scan of remove_small_biases from the i-th variable on:
\* acc = [temp, small, reduction, magnitude, af]
RECURSIVE small_biases_scan(_, _, _, _)
small_biases_scan(m, c, i, acc) ==
    IF i > num_variables(c) THEN acc
    ELSE
      LET v == c.variables[i]
          a == c.linear[i]
          lb == lower_bound(m, v)
          ub == upper_bound(m, v)
          v_range == Sub(ub, lb)
          cond == /\ LtFrac(RAbs(a), 1, CONDITIONAL_REMOVAL_BIAS_LIMIT_DEN)
                  /\ LtFrac(Mul(Mul(RAbs(a), v_range), R(num_variables(c))),
                            1, CONDITIONAL_REMOVAL_LIMIT_DEN)
      IN  small_biases_scan(m, c, i + 1,
                 [acc EXCEPT
                    !.af = @ \/ ~Ge(ub, lb),
                    !.temp = IF cond THEN @ \cup {v} ELSE @,
                    !.reduction = IF cond THEN Add(@, Mul(a, lb)) ELSE @,
                    !.magnitude = IF cond THEN Add(@, Mul(RAbs(a), v_range)) ELSE @,
                    !.small = IF BelowUnconditionalLimit(a) THEN @ \cup {v} ELSE @])

RECURSIVE remove_variables(_, _)
remove_variables(e, S) ==
    IF S = {} THEN e
    ELSE LET v == CHOOSE v \in S : TRUE IN remove_variables(remove_variable(e, v), S \ {v})

\* remove_small_biases(constraint): [c, ret, af]
remove_small_biases(m, c) ==
    IF ~is_linear(c) THEN [c |-> c, ret |-> FALSE, af |-> FALSE]
    ELSE
      LET acc == small_biases_scan(m, c, 1,
                    [temp |-> {}, small |-> {}, reduction |-> R(0), magnitude |-> R(0),
                     af |-> FALSE])
          commit == LtFrac(acc.magnitude, 1, SUM_REDUCTION_LIMIT_DEN)
          small == IF commit THEN acc.small \cup acc.temp ELSE acc.small
          c1 == IF commit THEN [c EXCEPT !.rhs = Sub(@, acc.reduction)] ELSE c
      IN  [c |-> remove_variables(c1, small), ret |-> small # {}, af |-> acc.af]

RECURSIVE small_biases_from(_, _)
small_biases_from(st, c) ==
    IF c > num_constraints(st.m) THEN st
    ELSE LET r == remove_small_biases(st.m, st.m.constraints[c])
         IN  small_biases_from([m |-> [st.m EXCEPT !.constraints[c] = r.c],
                                ret |-> st.ret \/ r.ret, err |-> "",
                                af |-> st.af \/ r.af], c + 1)

technique_remove_small_biases(m) ==
    small_biases_from([m |-> m, ret |-> FALSE, err |-> "", af |-> FALSE], 1)

\* the test without its GE case
EmptyConstraintInfeasibleNotGE(c) ==
    \/ c.sense = "EQ" /\ Ne(c.offset, c.rhs)
    \/ c.sense = "LE" /\ Gt(c.offset, c.rhs)

\* whether a constraint without variables violates its sense
EmptyConstraintInfeasible(c) ==
    \/ c.sense = "EQ" /\ Ne(c.offset, c.rhs)
    \/ c.sense = "LE" /\ Gt(c.offset, c.rhs)
    \/ c.sense = "GE" /\ Lt(c.offset, c.rhs)

\* the bounds written without a look at the sign of the bias
SingleVariableBoundsUnsigned(m, c, v) ==
    LET a == linear(c, v)
        rhs == Div(Sub(c.rhs, c.offset), a)
    IN  IF c.sense = "EQ"
        THEN LET m1 == set_lower_bound(m, v, Max(rhs, lower_bound(m, v)))
             IN  set_upper_bound(m1, v, Min(rhs, upper_bound(m1, v)))
        ELSE IF c.sense = "LE"
        THEN set_upper_bound(m, v, Min(rhs, upper_bound(m, v)))
        ELSE set_lower_bound(m, v, Max(rhs, lower_bound(m, v)))

\* the bounds a non-soft constraint a v (sense) rhs on its one variable gives
SingleVariableBounds(m, c, v) ==
    LET a == linear(c, v)
        rhs == Div(Sub(c.rhs, c.offset), a)
    IN  IF c.sense = "EQ"
        THEN LET m1 == set_lower_bound(m, v, Max(rhs, lower_bound(m, v)))
             IN  set_upper_bound(m1, v, Min(rhs, upper_bound(m1, v)))
        ELSE IF (c.sense = "LE") # Lt(a, R(0))
        THEN set_upper_bound(m, v, Min(rhs, upper_bound(m, v)))
        ELSE set_lower_bound(m, v, Max(rhs, lower_bound(m, v)))

\* the while loop of technique_remove_single_variable_constraints at index c
RECURSIVE single_variable_from(_, _)
single_variable_from(st, c) ==
    IF c > num_constraints(st.m) THEN st
    ELSE
      LET constraint == st.m.constraints[c]
      IN  IF num_variables(constraint) = 0
          THEN IF ~constraint.soft /\ EmptyConstraintInfeasible(constraint)
               THEN [st EXCEPT !.err = "infeasible"]
               ELSE single_variable_from(
                        [st EXCEPT !.m = remove_constraint(@, c), !.ret = TRUE], c)
          ELSE IF num_variables(constraint) = 1 /\ ~constraint.soft
          THEN LET v == constraint.variables[1]
                   a == linear(constraint, v)
                   \* assert(a), and the assert of the last branch
                   false_assert ==
                       \/ ~Truthy(a)
                       \/ /\ constraint.sense # "EQ"
                          /\ (constraint.sense = "LE") = Lt(a, R(0))
                          /\ (constraint.sense = "GE") # Ge(a, R(0))
               IN  single_variable_from(
                          [st EXCEPT !.m = remove_constraint(
                                              SingleVariableBounds(@, constraint, v), c),
                                     !.ret = TRUE,
                                     !.af = @ \/ false_assert], c)
          ELSE single_variable_from(st, c + 1)

technique_remove_single_variable_constraints(m) ==
    single_variable_from([m |-> m, ret |-> FALSE, err |-> "", af |-> FALSE], 1)

IntegerValued(vt) == vt \in {"SPIN", "BINARY", "INTEGER"}

\* the upper bound floored, the lower bound left
TightenVariableUpper(info) ==
    IF IntegerValued(info.vartype)
    THEN [info EXCEPT !.ub = IF Ne(@, Floor(@)) THEN Floor(@) ELSE @]
    ELSE info

\* what technique_tighten_bounds makes of one variable
TightenVariable(info) ==
    IF IntegerValued(info.vartype)
    THEN [info EXCEPT !.ub = IF Ne(@, Floor(@)) THEN Floor(@) ELSE @,
                      !.lb = IF Ne(@, Ceil(@)) THEN Ceil(@) ELSE @]
    ELSE info

technique_tighten_bounds(m) ==
    [m |-> [m EXCEPT !.varinfo = [v \in DOMAIN m.varinfo |-> TightenVariable(m.varinfo[v])]],
     ret |-> \E v \in DOMAIN m.varinfo : TightenVariable(m.varinfo[v]) # m.varinfo[v],
     err |-> "", af |-> FALSE]

\* get_min_max_activities from the i-th variable on: acc = [minac, maxac, af]
RECURSIVE activities_from(_, _, _, _, _)
activities_from(m, c, exclude_v, i, acc) ==
    IF i > num_variables(c) THEN acc
    ELSE
      LET v == c.variables[i]
          a == c.linear[i]
          lb == lower_bound(m, v)
          ub == upper_bound(m, v)
      IN  IF v = exclude_v THEN activities_from(m, c, exclude_v, i + 1, acc)
          ELSE IF Gt(a, R(0))
          THEN activities_from(m, c, exclude_v, i + 1,
                 [acc EXCEPT
                    !.af = @ \/ ~Ge(ub, lb),
                    !.minac = IF Gt(lb, NEG_INF) THEN Add(@, Mul(a, lb)) ELSE NEG_INF,
                    !.maxac = IF Lt(ub, INF) THEN Add(@, Mul(a, ub)) ELSE INF])
          ELSE activities_from(m, c, exclude_v, i + 1,
                 [acc EXCEPT
                    !.af = @ \/ ~Ge(ub, lb),
                    !.minac = IF Lt(ub, INF) THEN Add(@, Mul(a, ub)) ELSE NEG_INF,
                    !.maxac = IF Gt(lb, NEG_INF) THEN Add(@, Mul(a, lb)) ELSE INF])

get_min_max_activities(m, c, exclude_v) ==
    activities_from(m, c, exclude_v, 1, [minac |-> R(0), maxac |-> R(0), af |-> FALSE])

\* NEW_BOUND_MAX = 1.0e8, and the denominator of
\* MIN_CHANGE_FOR_BOUND_UPDATE * FEASIBILITY_TOLERANCE = 1e-9
NEW_BOUND_MAX == 100000000
MIN_CHANGE_DEN == 1000000000

Improves(diff) == GtFrac(diff, 1, MIN_CHANGE_DEN)

\* one candidate of domain_propagation.  The candidate pnb may become the
\* upper bound (upper) or the lower bound of v; lb and ub are the bounds read
\* before the first candidate of v was applied.
ApplyCandidate(st, v, pnb, lb, ub, upper) ==
    IF upper
    THEN IF ~Improves(Sub(ub, pnb)) THEN st
         ELSE IF Gt(pnb, lb) /\ Lt(pnb, ub)
              THEN [st EXCEPT !.m = set_upper_bound(@, v, pnb), !.ret = TRUE]
         ELSE IF Lt(pnb, lb) THEN [st EXCEPT !.err = "infeasible"]
         ELSE st
    ELSE IF ~Improves(Sub(pnb, lb)) THEN st
         ELSE IF Gt(pnb, lb) /\ Lt(pnb, ub)
              THEN [st EXCEPT !.m = set_lower_bound(@, v, pnb), !.ret = TRUE]
         ELSE IF Gt(pnb, ub) THEN [st EXCEPT !.err = "infeasible"]
         ELSE st

\* the body of the loop of domain_propagation for the i-th variable of
\* constraint c
PropagateVariable(st0, c, i) ==
    LET expression == st0.m.constraints[c]
        v == expression.variables[i]
        equality_constraint == expression.sense = "EQ"
        result == get_min_max_activities(st0.m, expression, v)
        minac == result.minac
        maxac == result.maxac
        a == linear(expression, v)
        lb == lower_bound(st0.m, v)
        ub == upper_bound(st0.m, v)
        \* the asserts of get_min_max_activities and assert(ub >= lb)
        st == [st0 EXCEPT !.af = @ \/ result.af \/ ~Ge(ub, lb)]
        pnb1 == Div(Sub(expression.rhs, minac), a)
        pnb2 == Div(Sub(expression.rhs, maxac), a)
        use1 == Gt(minac, NEG_INF) /\ Lt(expression.rhs, INF)
        use2 == equality_constraint /\ Lt(maxac, INF) /\ Gt(expression.rhs, NEG_INF)
    IN  IF vartype(st0.m, v) = "BINARY" THEN st0
        ELSE IF GtInt(RAbs(pnb1), NEW_BOUND_MAX) THEN st
        ELSE IF equality_constraint /\ GtInt(RAbs(pnb2), NEW_BOUND_MAX) THEN st
        ELSE IF Gt(a, R(0))
        THEN LET s1 == IF use1 THEN ApplyCandidate(st, v, pnb1, lb, ub, TRUE) ELSE st
             IN  IF s1.err # "" \/ ~use2 THEN s1
                 ELSE ApplyCandidate(s1, v, pnb2, lb, ub, FALSE)
        ELSE IF Lt(a, R(0))
        THEN LET s1 == IF use1 THEN ApplyCandidate(st, v, pnb1, lb, ub, FALSE) ELSE st
             IN  IF s1.err # "" \/ ~use2 THEN s1
                 ELSE ApplyCandidate(s1, v, pnb2, lb, ub, TRUE)
        ELSE st

RECURSIVE propagate_from(_, _, _)
propagate_from(st, c, i) ==
    IF i > num_variables(st.m.constraints[c]) \/ st.err # "" THEN st
    ELSE propagate_from(PropagateVariable(st, c, i), c, i + 1)

\* domain_propagation(constraint c)
domain_propagation(m, c) ==
    IF ~is_linear(m.constraints[c]) \/ m.constraints[c].soft
    THEN [m |-> m, ret |-> FALSE, err |-> "", af |-> FALSE]
    ELSE propagate_from([m |-> m, ret |-> FALSE, err |-> "", af |-> FALSE], c, 1)

RECURSIVE domain_propagation_from(_, _)
domain_propagation_from(st, c) ==
    IF c > num_constraints(st.m) \/ st.err # "" THEN st
    ELSE LET r == domain_propagation(st.m, c)
         IN  domain_propagation_from([m |-> r.m, ret |-> st.ret \/ r.ret, err |-> r.err,
                                      af |-> st.af \/ r.af], c + 1)

technique_domain_propagation(m) ==
    domain_propagation_from([m |-> m, ret |-> FALSE, err |-> "", af |-> FALSE], 1)

\* the while loop of technique_remove_fixed_variables at variable v
RECURSIVE fixed_variables_from(_, _)
fixed_variables_from(st, v) ==
    IF v > num_model_variables(st.m) THEN st
    ELSE IF Eq(lower_bound(st.m, v), upper_bound(st.m, v))
         THEN fixed_variables_from(
                [st EXCEPT !.m = fix_variable(@, v, lower_bound(st.m, v)), !.ret = TRUE], v + 1)
         ELSE fixed_variables_from(st, v + 1)

technique_remove_fixed_variables(m) ==
    fixed_variables_from([m |-> m, ret |-> FALSE, err |-> "", af |-> FALSE], 1)

----------------------------------------------------------------------------
(* The presolve driver *)

\* max_num_rounds
MaxRounds == 100

\* the changes and false asserts so far, joined with those of the technique
\* that gave r
Joined(st, r) == [m |-> r.m, ret |-> st.ret \/ r.ret, err |-> r.err, af |-> st.af \/ r.af]

\* one round of the driver loop: changes = false, then the six techniques,
\* each run unless an earlier one threw
Round1(st) == IF st.err # "" THEN st ELSE Joined(st, technique_remove_zero_biases(st.m))
Round2(st) == IF st.err # "" THEN st ELSE Joined(st, technique_remove_small_biases(st.m))
Round3(st) ==
    IF st.err # "" THEN st ELSE Joined(st, technique_remove_single_variable_constraints(st.m))
Round4(st) == IF st.err # "" THEN st ELSE Joined(st, technique_tighten_bounds(st.m))
Round5(st) == IF st.err # "" THEN st ELSE Joined(st, technique_domain_propagation(st.m))
Round6(st) == IF st.err # "" THEN st ELSE Joined(st, technique_remove_fixed_variables(st.m))

Round(m) ==
    Round6(Round5(Round4(Round3(Round2(Round1(
        [m |-> m, ret |-> FALSE, err |-> "", af |-> FALSE]))))))

\* the loop's next state after a round that gave r
after_round(st, r) == [r EXCEPT !.af = @ \/ st.af]

RECURSIVE rounds_from(_, _)
rounds_from(st, num_rounds) ==
    IF num_rounds >= MaxRounds \/ ~st.ret \/ st.err # "" THEN st
    ELSE rounds_from(after_round(st, Round(st.m)), num_rounds + 1)

\* assert(!normalize()) on the model the cleanup left: normalize() runs
\* only without NDEBUG and is then a false assert when it returns true (no
\* self-loop is left to give its equalities an order)
assert_normalized(again) == again.ret \/ again.err # ""

\* the cleanup after the loop, and the assert after the cleanup
presolve_cleanup(loop, cleanup) ==
    [m |-> cleanup.m, ret |-> loop.ret \/ cleanup.ret, err |-> "",
     af |-> loop.af \/ assert_normalized(normalize(cleanup.m,
                      CHOOSE o \in Perms(SelfLoopVars(cleanup.m)) : TRUE))]

\* presolve() returning after the loop, without the cleanup
presolve_after_loop_uncleaned(loop) == loop

presolve_after_loop(loop) ==
    IF loop.err # "" THEN loop
    ELSE presolve_cleanup(loop, normalization_remove_invalid_markers(loop.m))

\* presolve() past its three tests: the loop, the cleanup and the assert
presolve(m) ==
    presolve_after_loop(rounds_from([m |-> m, ret |-> TRUE, err |-> "", af |-> FALSE], 0))

----------------------------------------------------------------------------
(* The calls on a presolver p = [m, detached, normalized, techniques].     *)
(* A call yields [p, outcome, msg, ret, af]: outcome is "ok" or the        *)
(* exception thrown, msg the exception's message.                          *)

DetachedMsg == "model has been detached, so there is no model to apply presolve() to"
NotNormalizedMsg == "model must be normalized before presolve() is applied"

Threw(p, outcome, msg, af) == [p |-> p, outcome |-> outcome, msg |-> msg, ret |-> FALSE, af |-> af]
Returned(p, ret, af) == [p |-> p, outcome |-> "ok", msg |-> "", ret |-> ret, af |-> af]

\* what normalize() does with the result r of its steps
normalize_result(p, r) ==
    IF r.err # "" THEN Threw(p, "InvalidModelError", r.err, FALSE)
    ELSE Returned([p EXCEPT !.m = r.m, !.normalized = TRUE], r.ret, FALSE)

normalize_call(p, order) ==
    IF p.detached THEN Threw(p, "logic_error", DetachedMsg, FALSE)
    ELSE normalize_result(p, normalize(p.m, order))

\* what presolve() does with the result r of its loop and cleanup
presolve_result(p, r) ==
    IF r.err # "" THEN Threw([p EXCEPT !.m = r.m], "logic_error", r.err, r.af)
    ELSE Returned([p EXCEPT !.m = r.m], r.ret, r.af)

\* presolve() without the test of normalized_
presolve_call_unchecked(p) ==
    IF p.detached THEN Threw(p, "logic_error", DetachedMsg, FALSE)
    ELSE IF p.techniques = "None" THEN Returned(p, FALSE, FALSE)
    ELSE presolve_result(p, presolve(p.m))

presolve_call(p) ==
    IF p.detached THEN Threw(p, "logic_error", DetachedMsg, FALSE)
    ELSE IF ~p.normalized THEN Threw(p, "logic_error", NotNormalizedMsg, FALSE)
    ELSE IF p.techniques = "None" THEN Returned(p, FALSE, FALSE)
    ELSE presolve_result(p, presolve(p.m))

\* apply() is normalize() | presolve(): both operands are evaluated, in an
\* order the language leaves to the compiler; normalize_first says which.
\* a is the outcome of the operand evaluated first, b of the second
apply_result(a, b) ==
    IF a.outcome # "ok" THEN a
    ELSE IF b.outcome # "ok" THEN [b EXCEPT !.af = @ \/ a.af]
    ELSE Returned(b.p, a.ret \/ b.ret, a.af \/ b.af)

apply_second(a, order, normalize_first) ==
    apply_result(a, IF normalize_first THEN presolve_call(a.p) ELSE normalize_call(a.p, order))

apply_call(p, order, normalize_first) ==
    apply_second(IF normalize_first THEN normalize_call(p, order) ELSE presolve_call(p),
                 order, normalize_first)

\* ModelView::detach_model: the model is swapped for an empty one, the
\* journal stays
EmptyExpression == [variables |-> <<>>, linear |-> <<>>, quadratic |-> <<>>, offset |-> R(0)]
detach_model_call(p) ==
    Returned([p EXCEPT !.detached = TRUE,
                       !.m = [@ EXCEPT !.varinfo = <<>>, !.objective = EmptyExpression,
                                       !.constraints = <<>>]], FALSE, FALSE)

----------------------------------------------------------------------------
(* The models a presolver is constructed from                              *)
(*                                                                         *)
(* Up to MaxVars variables and up to MaxCons constraints.  A SPIN variable *)
(* has the bounds [-1, 1], a BINARY one [0, 1], an INTEGER or REAL one     *)
(* [0, MaxBound].  The constraints come from a pool of shapes over one or  *)
(* two variables; a self-loop is on an INTEGER or REAL variable only (the  *)
(* model folds v * v of a SPIN or BINARY variable into the offset or the   *)
(* linear bias when the bias is set).  Only the first variable may be      *)
(* REAL, so that the bounds domain propagation computes keep small         *)
(* denominators, and a model with more than one constraint combines the   *)
(* shapes of CombinedPool.  The one variable of a model may be an INTEGER  *)
(* variable with the bounds [1/2, 5/2].                                    *)

MaxVars == 2
MaxCons == 2
MaxBound == 10

Var(vt, lb, ub) == [vartype |-> vt, lb |-> R(lb), ub |-> R(ub)]
VarKinds ==
    {Var("SPIN", -1, 1), Var("BINARY", 0, 1), Var("INTEGER", 0, MaxBound),
     Var("REAL", 0, MaxBound)}

\* an INTEGER variable whose bounds are not integers: [1/2, 5/2]
FractionalKind == [vartype |-> "INTEGER", lb |-> Frac(1, 2), ub |-> Frac(5, 2)]

VarConfigs(n) ==
    {vs \in [1..n -> VarKinds \cup {FractionalKind}] :
        /\ \A v \in 2..n : vs[v].vartype # "REAL"
        /\ n > 1 => \A v \in 1..n : vs[v] # FractionalKind}

Constraint(variables, biases, quad, offset, sense, rhs, soft, discrete) ==
    [variables |-> variables, linear |-> biases, quadratic |-> quad, offset |-> offset,
     sense |-> sense, rhs |-> rhs, soft |-> soft, discrete |-> discrete]

NoQuad == <<>>
OneQuad(u, v, bias) == [q \in {Pair(u, v)} |-> bias]
TwoLoops(u, v, bu, bv) == [q \in {<<u, u>>, <<v, v>>} |-> IF q = <<u, u>> THEN bu ELSE bv]

\* constraints on the one variable v
SingleShapes(v) ==
    {Constraint(<<v>>, <<R(2)>>, NoQuad, R(0), "EQ", R(6), FALSE, FALSE),    \* 2 v = 6
     Constraint(<<v>>, <<R(2)>>, NoQuad, R(0), "EQ", R(7), FALSE, FALSE),    \* 2 v = 7
     Constraint(<<v>>, <<R(1)>>, NoQuad, R(0), "LE", R(-1), FALSE, FALSE),   \* v <= -1
     Constraint(<<v>>, <<R(-1)>>, NoQuad, R(0), "LE", R(-1), FALSE, FALSE),  \* -v <= -1
     Constraint(<<v>>, <<R(1)>>, NoQuad, R(0), "GE", R(1), FALSE, FALSE),    \* v >= 1
     Constraint(<<v>>, <<R(-1)>>, NoQuad, R(0), "GE", R(-2), FALSE, FALSE),  \* -v >= -2
     Constraint(<<v>>, <<R(1)>>, NoQuad, R(1), "LE", R(2), FALSE, FALSE),    \* v + 1 <= 2
     Constraint(<<v>>, <<R(1)>>, NoQuad, R(0), "LE", R(1), TRUE, FALSE),     \* soft v <= 1
     Constraint(<<v>>, <<R(1)>>, OneQuad(v, v, R(1)), R(0), "LE", R(7), FALSE, FALSE),
                                                                              \* v v + v <= 7
     Constraint(<<v>>, <<NAN>>, NoQuad, R(0), "LE", R(1), FALSE, FALSE),     \* NaN v <= 1
     Constraint(<<v>>, <<R(1)>>, NoQuad, NAN, "LE", R(1), FALSE, FALSE)}     \* v + NaN <= 1

\* constraints on the two variables u < v
PairShapes(u, v) ==
    {Constraint(<<u, v>>, <<R(1), R(1)>>, NoQuad, R(0), "EQ", R(1), FALSE, TRUE),
                                                              \* u + v = 1, discrete
     Constraint(<<u, v>>, <<R(2), R(-1)>>, NoQuad, R(0), "EQ", R(0), FALSE, FALSE),
                                                              \* 2 u - v = 0
     Constraint(<<u, v>>, <<R(1), R(-1)>>, NoQuad, R(0), "LE", R(-1), FALSE, FALSE),
                                                              \* u - v <= -1
     Constraint(<<u, v>>, <<R(1), R(1)>>, NoQuad, R(0), "LE", R(7), TRUE, FALSE),
                                                              \* soft u + v <= 7
     Constraint(<<u, v>>, <<R(0), R(1)>>, NoQuad, R(0), "LE", R(1), FALSE, FALSE),
                                                              \* 0 u + v <= 1
     Constraint(<<u, v>>, <<R(1), R(0)>>, OneQuad(u, v, R(2)), R(1), "GE", R(2), FALSE, TRUE),
                                                              \* 2 u v + u + 1 >= 2, discrete
     Constraint(<<u, v>>, <<R(1), R(0)>>, OneQuad(u, v, NAN), R(0), "LE", R(1), FALSE, FALSE),
                                                              \* NaN u v + u <= 1
     Constraint(<<u, v>>, <<R(1), R(1)>>, TwoLoops(u, v, R(1), R(2)), R(0), "GE", R(1),
                FALSE, FALSE),                                \* u u + 2 v v + u + v >= 1
     Constraint(<<u, v>>, <<R(1), R(1)>>, NoQuad, R(0), "EQ", R(1), TRUE, TRUE)}
                                                              \* soft u + v = 1, discrete

\* constraints without variables
EmptyShapes ==
    {Constraint(<<>>, <<>>, NoQuad, R(0), "LE", R(1), FALSE, FALSE),         \* 0 <= 1
     Constraint(<<>>, <<>>, NoQuad, R(0), "EQ", R(1), FALSE, FALSE),         \* 0 = 1
     Constraint(<<>>, <<>>, NoQuad, R(0), "GE", R(1), FALSE, FALSE),         \* 0 >= 1
     Constraint(<<>>, <<>>, NoQuad, R(2), "GE", R(1), FALSE, FALSE),         \* 2 >= 1
     Constraint(<<>>, <<>>, NoQuad, R(0), "EQ", R(1), TRUE, FALSE)}          \* soft 0 = 1

ConstraintPool(n) ==
    EmptyShapes
    \cup UNION {SingleShapes(v) : v \in 1..n}
    \cup UNION {PairShapes(p[1], p[2]) : p \in {q \in (1..n) \X (1..n) : q[1] < q[2]}}

\* the shapes a model with more than one constraint combines: those that
\* leave a technique something to do on the other constraint
CombinedSingles(v) ==
    {Constraint(<<v>>, <<R(2)>>, NoQuad, R(0), "EQ", R(6), FALSE, FALSE),    \* 2 v = 6
     Constraint(<<v>>, <<R(-1)>>, NoQuad, R(0), "LE", R(-1), FALSE, FALSE)}  \* -v <= -1

CombinedPool(n) ==
    {c \in ConstraintPool(n) :
        /\ ~ExpressionHasNan(c)
        /\ num_variables(c) >= 1
        /\ num_variables(c) = 1 => c \in CombinedSingles(c.variables[1])}

\* objectives on variable 1
ObjectivePool(n) ==
    IF n = 0 THEN {}
    ELSE {[variables |-> <<1>>, linear |-> <<R(3)>>, quadratic |-> OneQuad(1, 1, R(1)),
           offset |-> R(0)],                                                  \* v v + 3 v
          [variables |-> <<1>>, linear |-> <<NAN>>, quadratic |-> NoQuad, offset |-> R(0)]}

HasSelfLoop(e, v) == <<v, v>> \in DOMAIN e.quadratic

\* the model folds the self-loop of a SPIN or BINARY variable away
WellFormed(vs, obj, cs) ==
    \A v \in DOMAIN vs :
        vs[v].vartype \in {"SPIN", "BINARY"} =>
            /\ ~HasSelfLoop(obj, v)
            /\ \A c \in DOMAIN cs : ~HasSelfLoop(cs[c], v)

Model ==
    [varinfo |-> varinfo, objective |-> objective, constraints |-> constraints,
     transforms |-> transforms]
Presolver ==
    [m |-> Model, detached |-> detached, normalized |-> normalized, techniques |-> techniques]

NoCall == [op |-> "construct", outcome |-> "ok", msg |-> "", ret |-> FALSE,
           changed |-> FALSE, sample |-> <<>>, result |-> <<>>]

\* no presolve() call is in progress; the locals hold their initial values
NotRunning == [pc |-> "idle", num_rounds |-> 0, changes |-> FALSE, c |-> 1, ret |-> FALSE,
               discrete |-> <<>>, i |-> 1, af |-> FALSE]

\* the flags of the presolver, kept in pre as they were before the last call
Flags == [detached |-> detached, normalized |-> normalized, techniques |-> techniques]

\* PresolverImpl(model): a model with an objective has one variable and at
\* most one constraint, or no constraint
Init ==
    /\ \E n \in 0..MaxVars :
        /\ varinfo \in VarConfigs(n)
        /\ \E k \in 0..MaxCons :
            /\ constraints \in [1..k -> IF k <= 1 THEN ConstraintPool(n) ELSE CombinedPool(n)]
            /\ objective \in {EmptyExpression} \cup (IF n * k <= 1 THEN ObjectivePool(n) ELSE {})
        /\ WellFormed(varinfo, objective, constraints)
    /\ transforms = <<>>
    /\ detached = FALSE
    /\ normalized = FALSE
    /\ techniques = "None"
    /\ asserts = TRUE
    /\ original = [varinfo |-> varinfo, objective |-> objective, constraints |-> constraints]
    /\ pre = Flags
    /\ last = NoCall
    /\ running = NotRunning

\* the call's effect on the presolver and its record in last
Effect(op, r, sample, result) ==
    /\ varinfo' = r.p.m.varinfo
    /\ objective' = r.p.m.objective
    /\ constraints' = r.p.m.constraints
    /\ transforms' = r.p.m.transforms
    /\ detached' = r.p.detached
    /\ normalized' = r.p.normalized
    /\ techniques' = r.p.techniques
    /\ asserts' = (asserts /\ ~r.af)
    /\ pre' = Flags
    /\ last' = [op |-> op, outcome |-> r.outcome, msg |-> r.msg, ret |-> r.ret,
                changed |-> r.p.m # Model, sample |-> sample, result |-> result]
    /\ running' = NotRunning
    /\ UNCHANGED original

Normalize ==
    \E order \in Perms(SelfLoopVars(Model)) :
        Effect("normalize", normalize_call(Presolver, order), <<>>, <<>>)

Presolve == Effect("presolve", presolve_call(Presolver), <<>>, <<>>)

Apply ==
    \E order \in Perms(SelfLoopVars(Model)), normalize_first \in BOOLEAN :
        Effect("apply", apply_call(Presolver, order, normalize_first), <<>>, <<>>)

DetachModel ==
    /\ ~detached
    /\ Effect("detach_model", detach_model_call(Presolver), <<>>, <<>>)

LoadDefaultPresolvers ==
    /\ techniques = "None"
    /\ Effect("load_default_presolvers",
              Returned([Presolver EXCEPT !.techniques = "All"], FALSE, FALSE), <<>>, <<>>)

\* restore(reduced) for a sample of the held model: every variable at its
\* lower bound, or every variable at its upper bound
Samples == {[v \in DOMAIN varinfo |-> varinfo[v].lb], [v \in DOMAIN varinfo |-> varinfo[v].ub]}

Restore ==
    /\ last.op # "restore"
    /\ \E sample \in Samples :
        LET r == restore(transforms, sample)
        IN  Effect("restore",
                   IF r.ok THEN Returned(Presolver, FALSE, FALSE)
                   ELSE Threw(Presolver, "undefined", "", FALSE),
                   sample, r.sample)

Next ==
    \/ Normalize
    \/ Presolve
    \/ Apply
    \/ DetachModel
    \/ LoadDefaultPresolvers
    \/ Restore

Spec == Init /\ [][Next]_vars

\* The static normalization_flip_constraint(constraint) called, as the tests
\* call it, on a constraint of the caller's model; the presolver is not
\* touched.  last.sample holds the constraint, last.result the flipped one.
FlipConstraint ==
    /\ \E c \in DOMAIN original.constraints :
        LET r == normalization_flip_constraint(original.constraints[c])
        IN  last' = [op |-> "normalization_flip_constraint", outcome |-> "ok", msg |-> "",
                     ret |-> r.ret, changed |-> FALSE,
                     sample |-> <<original.constraints[c]>>, result |-> <<r.c>>]
    /\ pre' = Flags
    /\ UNCHANGED <<varinfo, objective, constraints, transforms, detached, normalized,
                   techniques, asserts, original, running>>

NextFlip ==
    \/ FlipConstraint
    \/ Normalize

SpecFlip == Init /\ [][NextFlip]_vars

\* One pass of one technique on the held model, as a round of presolve()
\* runs it.  The single-variable pass also runs on a model that was not
\* normalized, whose constraints may be GE; the other passes run on the
\* models presolve() gives them, which are normalized.
TechniqueStep(op, r) == Effect(op, presolve_result(Presolver, r), <<>>, <<>>)

RemoveSingleVariableConstraints ==
    /\ ~detached
    /\ TechniqueStep("technique_remove_single_variable_constraints",
                     technique_remove_single_variable_constraints(Model))

TightenBounds ==
    /\ ~detached
    /\ normalized
    /\ TechniqueStep("technique_tighten_bounds", technique_tighten_bounds(Model))

\* the passes of domain propagation on a REAL variable can halve a bound
\* without end; a pass starts from bounds whose denominators are within
\* MaxDenominator
MaxDenominator == 8
BoundsWithin ==
    \A v \in DOMAIN varinfo :
        varinfo[v].lb[2] <= MaxDenominator /\ varinfo[v].ub[2] <= MaxDenominator

DomainPropagation ==
    /\ ~detached
    /\ normalized
    /\ BoundsWithin
    /\ TechniqueStep("technique_domain_propagation", technique_domain_propagation(Model))

RemoveFixedVariables ==
    /\ ~detached
    /\ normalized
    /\ TechniqueStep("technique_remove_fixed_variables", technique_remove_fixed_variables(Model))

NextTechnique ==
    \/ Normalize
    \/ RemoveSingleVariableConstraints
    \/ TightenBounds
    \/ DomainPropagation
    \/ RemoveFixedVariables

SpecTechnique == Init /\ [][NextTechnique]_vars

----------------------------------------------------------------------------
(* presolve() one step at a time: the test of its loop, each technique of  *)
(* a round, each iteration of the walk over the constraints in             *)
(* technique_remove_single_variable_constraints, the first loop of         *)
(* normalization_remove_invalid_markers and each iteration of its walk     *)
(* over the discrete constraints.  running holds the position and the      *)
(* locals num_rounds, changes, c, ret, discrete and i.                     *)

\* an iteration that removes what it can remove and never advances the index
single_variable_iteration_stuck(st, c) ==
    LET constraint == st.m.constraints[c]
    IN  IF num_variables(constraint) = 0
        THEN IF ~constraint.soft /\ EmptyConstraintInfeasible(constraint)
             THEN [st |-> [st EXCEPT !.err = "infeasible"], c |-> c]
             ELSE [st |-> [st EXCEPT !.m = remove_constraint(@, c), !.ret = TRUE], c |-> c]
        ELSE IF num_variables(constraint) = 1 /\ ~constraint.soft
        THEN LET v == constraint.variables[1]
             IN  [st |-> [st EXCEPT !.m = remove_constraint(
                                              SingleVariableBounds(@, constraint, v), c),
                                    !.ret = TRUE],
                  c |-> c]
        ELSE [st |-> st, c |-> c]

\* one iteration of the while loop of
\* technique_remove_single_variable_constraints at index c: [st, c]
single_variable_iteration(st, c) ==
    LET constraint == st.m.constraints[c]
    IN  IF num_variables(constraint) = 0
        THEN IF ~constraint.soft /\ EmptyConstraintInfeasible(constraint)
             THEN [st |-> [st EXCEPT !.err = "infeasible"], c |-> c]
             ELSE [st |-> [st EXCEPT !.m = remove_constraint(@, c), !.ret = TRUE], c |-> c]
        ELSE IF num_variables(constraint) = 1 /\ ~constraint.soft
        THEN LET v == constraint.variables[1]
                 a == linear(constraint, v)
                 false_assert ==
                     \/ ~Truthy(a)
                     \/ /\ constraint.sense # "EQ"
                        /\ (constraint.sense = "LE") = Lt(a, R(0))
                        /\ (constraint.sense = "GE") # Ge(a, R(0))
             IN  [st |-> [st EXCEPT !.m = remove_constraint(
                                              SingleVariableBounds(@, constraint, v), c),
                                    !.ret = TRUE,
                                    !.af = @ \/ false_assert],
                  c |-> c]
        ELSE [st |-> st, c |-> c + 1]

\* one iteration of the overlap loop of normalization_remove_invalid_markers
\* at index i: [st, i]
markers_overlap_iteration(st, i) ==
    LET constraint == st.m.constraints[st.discrete[i]]
        overlap == \E j \in (i + 1)..Len(st.discrete) :
                      shares_variables(st.m.constraints[st.discrete[j]], constraint)
    IN  IF overlap
        THEN [st |-> [m |-> mark_discrete(st.m, st.discrete[i], FALSE),
                      ret |-> TRUE,
                      discrete |-> SeqRemove(st.discrete, i)],
              i |-> i]
        ELSE [st |-> st, i |-> i + 1]

\* a step inside presolve(): the model and the locals change, the call has
\* not ended
Step(m, run) ==
    /\ varinfo' = m.varinfo
    /\ objective' = m.objective
    /\ constraints' = m.constraints
    /\ transforms' = m.transforms
    /\ running' = run
    /\ UNCHANGED <<detached, normalized, techniques, asserts, original, pre, last>>

\* the end of presolve(): it returns changes, or passes the exception of a
\* technique on
Leave(r) == Effect("presolve", presolve_result(Presolver, r), <<>>, <<>>)

\* presolve() up to its loop: the three tests, then changes = true and
\* num_rounds = 0
PresolveEnter ==
    /\ running.pc = "idle"
    /\ IF detached \/ ~normalized \/ techniques = "None"
       THEN Effect("presolve", presolve_call(Presolver), <<>>, <<>>)
       ELSE Step(Model, [NotRunning EXCEPT !.pc = "loop", !.changes = TRUE])

\* the head of the loop: num_rounds < max_num_rounds, then if (!changes) break
LoopTest ==
    /\ running.pc = "loop"
    /\ IF running.num_rounds < MaxRounds /\ running.changes
       THEN Step(Model, [running EXCEPT !.pc = "remove_zero_biases", !.changes = FALSE])
       ELSE Step(Model, [running EXCEPT !.pc = "cleanup"])

\* changes |= technique(), where r is what the technique yields
RunTechnique(pc, next, r) ==
    /\ running.pc = pc
    /\ IF r.err # ""
       THEN Leave([m |-> r.m, ret |-> running.changes \/ r.ret, err |-> r.err,
                   af |-> running.af \/ r.af])
       ELSE Step(r.m, [running EXCEPT !.pc = next, !.changes = @ \/ r.ret, !.af = @ \/ r.af])

RemoveZeroBiases ==
    RunTechnique("remove_zero_biases", "remove_small_biases", technique_remove_zero_biases(Model))

RemoveSmallBiases ==
    RunTechnique("remove_small_biases", "remove_single_variable_constraints",
                 technique_remove_small_biases(Model))

\* the locals of technique_remove_single_variable_constraints as [st, c]
WalkState ==
    [st |-> [m |-> Model, ret |-> running.ret, err |-> "", af |-> running.af], c |-> running.c]

\* what an iteration that yields w does: the exception ends presolve(),
\* otherwise the walk goes on from w
WalkOn(w) ==
    IF w.st.err # ""
    THEN Leave([w.st EXCEPT !.ret = running.changes \/ @])
    ELSE Step(w.st.m, [running EXCEPT !.c = w.c, !.ret = w.st.ret, !.af = w.st.af])

\* one iteration of while (c < model_.num_constraints())
SingleVariableWalk ==
    /\ running.pc = "remove_single_variable_constraints"
    /\ running.c <= Len(constraints)
    /\ WalkOn(single_variable_iteration(WalkState.st, WalkState.c))

\* return ret, and changes |= that
SingleVariableReturn ==
    /\ running.pc = "remove_single_variable_constraints"
    /\ running.c > Len(constraints)
    /\ Step(Model, [running EXCEPT !.pc = "tighten_bounds", !.changes = @ \/ running.ret,
                                   !.c = 1, !.ret = FALSE])

TightenBoundsInRound ==
    RunTechnique("tighten_bounds", "domain_propagation", technique_tighten_bounds(Model))

DomainPropagationInRound ==
    RunTechnique("domain_propagation", "remove_fixed_variables",
                 technique_domain_propagation(Model))

RemoveFixedVariablesInRound ==
    RunTechnique("remove_fixed_variables", "end_of_round",
                 technique_remove_fixed_variables(Model))

\* ++num_rounds
EndOfRound ==
    /\ running.pc = "end_of_round"
    /\ Step(Model, [running EXCEPT !.pc = "loop", !.num_rounds = @ + 1])

\* the first loop of normalization_remove_invalid_markers, which yields st
MarkersCollected(st) ==
    Step(st.m, [running EXCEPT !.pc = "overlap", !.ret = st.ret, !.discrete = st.discrete,
                               !.i = 1])

CollectMarkers ==
    /\ running.pc = "cleanup"
    /\ MarkersCollected(markers_collect([m |-> Model, ret |-> FALSE, discrete |-> <<>>], 1))

\* the locals of normalization_remove_invalid_markers as [st, i]
OverlapState ==
    [st |-> [m |-> Model, ret |-> running.ret, discrete |-> running.discrete], i |-> running.i]

OverlapOn(w) ==
    Step(w.st.m, [running EXCEPT !.i = w.i, !.ret = w.st.ret, !.discrete = w.st.discrete])

\* one iteration of while (i < discrete.size())
OverlapWalk ==
    /\ running.pc = "overlap"
    /\ running.i <= Len(running.discrete)
    /\ OverlapOn(markers_overlap_iteration(OverlapState.st, OverlapState.i))

\* changes |= the markers' return value; assert(!normalize()); return changes
PresolveReturn ==
    /\ running.pc = "overlap"
    /\ running.i > Len(running.discrete)
    /\ Leave([m |-> Model, ret |-> running.changes \/ running.ret, err |-> "",
              af |-> running.af
                     \/ assert_normalized(normalize(Model,
                                CHOOSE o \in Perms(SelfLoopVars(Model)) : TRUE))])

\* the steps of a presolve() call that has entered its loop
NextRunning ==
    \/ LoopTest
    \/ RemoveZeroBiases
    \/ RemoveSmallBiases
    \/ SingleVariableWalk
    \/ SingleVariableReturn
    \/ TightenBoundsInRound
    \/ DomainPropagationInRound
    \/ RemoveFixedVariablesInRound
    \/ EndOfRound
    \/ CollectMarkers
    \/ OverlapWalk
    \/ PresolveReturn

\* apply() is normalize() | presolve(): the calls of the caller's thread,
\* made when no call is in progress
NextDriver ==
    \/ running.pc = "idle" /\ Normalize
    \/ running.pc = "idle" /\ LoadDefaultPresolvers
    \/ PresolveEnter
    \/ NextRunning

\* the thread that called presolve() keeps running it: a call in progress
\* takes its next step.  This is WF_vars(NextRunning) with ENABLED written
\* out: a step of NextRunning is possible exactly when a call is in progress.
KeepsRunning == []<>(running.pc = "idle") \/ []<><<NextRunning>>_vars

SpecDriver == Init /\ [][NextDriver]_vars /\ KeepsRunning

----------------------------------------------------------------------------
(* Properties *)

NumRecords(kind) == Cardinality({k \in DOMAIN transforms : transforms[k].kind = kind})

\* C1: restore() of a sample as long as the held model has variables returns a
\* sample as long as the model the presolver was constructed from: no record
\* of the journal is replayed at a position outside the sample, and the
\* current variable count is N + #ADD - #FIX.
C1_JournalReversible ==
    ~detached =>
        /\ Len(varinfo) = Len(original.varinfo) + NumRecords("ADD") - NumRecords("FIX")
        /\ \A sample \in Samples :
            LET r == restore(transforms, sample)
            IN  r.ok /\ Len(r.sample) = Len(original.varinfo)

\* C1 witness: a restore() through a journal with ADD and FIX records, from a
\* sample of another length than the original model
C1_RestoredThroughAddAndFix ==
    /\ last.op = "restore"
    /\ last.outcome = "ok"
    /\ NumRecords("ADD") > 0
    /\ NumRecords("FIX") > 0
    /\ Len(last.sample) # Len(last.result)
    /\ Len(last.result) = Len(original.varinfo)

\* FEASIBILITY_TOLERANCE = 1.0e-6 is 1 / FEASIBILITY_TOLERANCE_DEN
FEASIBILITY_TOLERANCE_DEN == 1000000

\* the linear terms of e from the i-th on, at the sample
RECURSIVE LinearEnergy(_, _, _)
LinearEnergy(e, sample, i) ==
    IF i > Len(e.variables) THEN R(0)
    ELSE Add(Mul(e.linear[i], sample[e.variables[i]]), LinearEnergy(e, sample, i + 1))

\* the quadratic terms of e on the pairs S, at the sample
RECURSIVE QuadraticEnergy(_, _, _)
QuadraticEnergy(e, sample, S) ==
    IF S = {} THEN R(0)
    ELSE LET q == CHOOSE p \in S : TRUE
         IN  Add(Mul(e.quadratic[q], Mul(sample[q[1]], sample[q[2]])),
                 QuadraticEnergy(e, sample, S \ {q}))

\* the value of expression e at a sample of the model's variables
Energy(e, sample) ==
    Add(e.offset, Add(LinearEnergy(e, sample, 1), QuadraticEnergy(e, sample, DOMAIN e.quadratic)))

\* constraint c holds at the sample within the feasibility tolerance
Satisfies(c, sample) ==
    LET diff == Sub(Energy(c, sample), c.rhs)
    IN  CASE c.sense = "EQ" -> ~GtFrac(RAbs(diff), 1, FEASIBILITY_TOLERANCE_DEN)
          [] c.sense = "LE" -> ~GtFrac(diff, 1, FEASIBILITY_TOLERANCE_DEN)
          [] c.sense = "GE" -> ~GtFrac(Neg(diff), 1, FEASIBILITY_TOLERANCE_DEN)

\* x is a value of a variable with the given vartype and bounds
InDomain(info, x) ==
    /\ Le(info.lb, x)
    /\ Le(x, info.ub)
    /\ IntegerValued(info.vartype) => x[2] = 1
    /\ info.vartype = "SPIN" => x \in {R(-1), R(1)}

\* values of a variable of the held model: every one for an integer-valued
\* variable, the two bounds and their middle for a REAL one
Values(info) ==
    IF IntegerValued(info.vartype)
    THEN {x \in {R(i) : i \in Ceil(info.lb)[1]..Floor(info.ub)[1]} : InDomain(info, x)}
    ELSE {x \in {info.lb, info.ub, Div(Add(info.lb, info.ub), R(2))} : InDomain(info, x)}

\* the assignments of the held model, drawn from Values, that satisfy every
\* constraint of it, soft ones included
FeasibleAssignments ==
    {a \in [DOMAIN varinfo -> UNION {Values(varinfo[v]) : v \in DOMAIN varinfo}] :
        /\ \A v \in DOMAIN varinfo : a[v] \in Values(varinfo[v])
        /\ \A c \in DOMAIN constraints : Satisfies(constraints[c], a)}

\* C2: once apply() has returned, restore() takes every feasible assignment
\* of the reduced model to an assignment that lies in the original domains
\* (bounds and vartype) and satisfies every non-soft original constraint.
C2_RoundTrip ==
    (last.op = "apply" /\ last.outcome = "ok") =>
        \A a \in FeasibleAssignments :
            LET r == restore(transforms, a)
            IN  /\ r.ok
                /\ Len(r.sample) = Len(original.varinfo)
                /\ \A v \in DOMAIN original.varinfo :
                        InDomain(original.varinfo[v], r.sample[v])
                /\ \A c \in DOMAIN original.constraints :
                        original.constraints[c].soft
                        \/ Satisfies(original.constraints[c], r.sample)

\* C3: apply() returns true exactly when the call changed the held model
\* (variables, bounds, objective, constraints) or the journal.
C3_ApplyReportsChange ==
    (last.op = "apply" /\ last.outcome = "ok") => (last.ret <=> last.changed)

\* C4: a normalize() that immediately follows a completed normalize() returns
\* false and leaves the model (vartypes, bounds, biases, offsets, rhs, senses,
\* discrete marks, constraint list) and the journal as they were.
C4_NormalizeIdempotent ==
    [][(last.op = "normalize" /\ last.outcome = "ok" /\ last'.op = "normalize") =>
           (last'.outcome = "ok" /\ ~last'.ret /\ Model' = Model)]_vars

\* C4 witness: a second normalize() has returned on a model that the first
\* one rewrote (a journal record, a moved offset or a flipped constraint)
C4_NormalizedTwice ==
    /\ last.op = "normalize"
    /\ last.outcome = "ok"
    /\ pre.normalized
    /\ techniques = "None"
    /\ Len(transforms) > 0
    /\ Len(constraints) > Len(original.constraints)
    /\ [varinfo |-> varinfo, objective |-> objective, constraints |-> constraints] # original

\* C5: an apply() that immediately follows a completed apply(), with the
\* techniques loaded, leaves the model and the journal as they were.
C5_ApplyIdempotent ==
    [][(last.op = "apply" /\ last.outcome = "ok" /\ techniques = "All"
        /\ last'.op = "apply") =>
           (last'.outcome = "ok" /\ Model' = Model)]_vars

\* a linear bias, a quadratic bias or the offset of expression e is NaN
AnyNan(e) ==
    \/ isnan(e.offset)
    \/ \E i \in DOMAIN e.linear : isnan(e.linear[i])
    \/ \E q \in DOMAIN e.quadratic : isnan(e.quadratic[q])

ModelHasNan == AnyNan(objective) \/ \E c \in DOMAIN constraints : AnyNan(constraints[c])

\* C6: normalize() on a model with a NaN bias or offset throws
\* InvalidModelError("biases cannot be NAN") and leaves the model, the journal
\* and the flags as they were, normalized unset; the presolve() that follows is
\* refused with the logic error of a presolver that was not normalized.
C6_NanRejected ==
    [][/\ (ModelHasNan /\ last'.op = "normalize") =>
            /\ last'.outcome = "InvalidModelError"
            /\ last'.msg = "biases cannot be NAN"
            /\ Presolver' = Presolver
            /\ ~normalized'
       /\ (last.op = "normalize" /\ last.outcome = "InvalidModelError"
           /\ last'.op = "presolve") =>
            /\ last'.outcome = "logic_error"
            /\ last'.msg = NotNormalizedMsg
            /\ Presolver' = Presolver]_vars

\* C6 witness: presolve() has been refused on a model with a NaN quadratic
\* bias that normalize() had rejected
C6_NanModelRefused ==
    /\ last.op = "presolve"
    /\ last.outcome = "logic_error"
    /\ \E c \in DOMAIN constraints :
         \E q \in DOMAIN constraints[c].quadratic : isnan(constraints[c].quadratic[q])
    /\ ~normalized
    /\ techniques = "All"

\* C7: on a detached presolver normalize(), presolve() and apply() throw a
\* logic error and change neither the journal nor a flag; presolve() on a
\* presolver that no normalize() has completed on throws a logic error and
\* leaves the model as it was.
C7_DetachedOrUnnormalizedRefused ==
    [][/\ (detached /\ last'.op \in {"normalize", "presolve", "apply"}) =>
            /\ last'.outcome = "logic_error"
            /\ last'.msg = DetachedMsg
            /\ Presolver' = Presolver
       /\ (~normalized /\ last'.op = "presolve") =>
            /\ last'.outcome = "logic_error"
            /\ Presolver' = Presolver]_vars

\* C7 witness: apply() refused on a detached presolver whose journal holds
\* records
C7_RefusedAfterDetach ==
    /\ last.op = "apply"
    /\ last.outcome = "logic_error"
    /\ last.msg = DetachedMsg
    /\ detached
    /\ normalized
    /\ Len(transforms) > 0

\* C8: apply() does not return when the elimination of a single-variable
\* constraint and the snapping of the bounds have left an integer-valued
\* variable with lb > ub: it throws "infeasible".  Stated of the runs in which
\* no assert of the code is false.
C8_EmptyDomainRaises ==
    (last.op = "apply" /\ last.outcome = "ok" /\ asserts) =>
        \A v \in DOMAIN varinfo :
            IntegerValued(varinfo[v].vartype) => Le(varinfo[v].lb, varinfo[v].ub)

\* C9: every variable of the held model has lb <= ub, the input model's
\* variables having lb <= ub.  Stated of the runs in which no assert of the
\* code is false.
C9_BoundsOrdered ==
    asserts => \A v \in DOMAIN varinfo : Le(varinfo[v].lb, varinfo[v].ub)

\* every bias of expression r is the negation of the bias of c
Negated(c, r) ==
    /\ r.variables = c.variables
    /\ DOMAIN r.linear = DOMAIN c.linear
    /\ \A i \in DOMAIN c.linear : r.linear[i] = Neg(c.linear[i])
    /\ DOMAIN r.quadratic = DOMAIN c.quadratic
    /\ \A q \in DOMAIN c.quadratic : r.quadratic[q] = Neg(c.quadratic[q])
    /\ r.offset = Neg(c.offset)
    /\ r.rhs = Neg(c.rhs)

\* C10: normalization_flip_constraint negates the linear biases, the
\* quadratic biases, the offset and the rhs of a GE constraint, makes it LE
\* and returns true; it leaves an EQ or LE constraint alone and returns false;
\* after normalize() no constraint is GE.
C10_FlipConstraint ==
    /\ last.op = "normalization_flip_constraint" =>
         LET c == last.sample[1]
             r == last.result[1]
         IN  IF c.sense = "GE"
             THEN /\ Negated(c, r)
                  /\ r.sense = "LE"
                  /\ r.soft = c.soft
                  /\ r.discrete = c.discrete
                  /\ last.ret
             ELSE r = c /\ ~last.ret
    /\ (last.op = "normalize" /\ last.outcome = "ok") =>
         \A c \in DOMAIN constraints : constraints[c].sense # "GE"

\* C10 witness: a GE constraint with a quadratic bias and an offset has been
\* flipped
C10_FlippedGE ==
    /\ last.op = "normalization_flip_constraint"
    /\ last.sample[1].sense = "GE"
    /\ DOMAIN last.sample[1].quadratic # {}
    /\ Truthy(last.sample[1].offset)
    /\ last.result[1].rhs = R(-2)
    /\ last.ret

\* expression k of the model held after the step
GetExprAfter(k) == IF k = 0 THEN objective' ELSE constraints'[k]

\* the equality v - w = 0 that normalization_remove_self_loops appends
IsEquality(c, v, w) ==
    /\ c.variables = <<v, w>>
    /\ c.linear = <<R(1), R(-1)>>
    /\ c.quadratic = <<>>
    /\ c.offset = R(0)
    /\ c.sense = "EQ"
    /\ c.rhs = R(0)
    /\ ~c.soft
    /\ ~c.discrete

\* comp gives every variable with a self-loop its companion among the
\* variables the step added: a copy of the variable, the self-loop's bias now
\* between the two (negated with the constraint when normalize() flipped a GE
\* constraint), and the equality of the two among the constraints appended
CompanionsOf(comp) ==
    /\ \A v, w \in DOMAIN comp : v # w => comp[v] # comp[w]
    /\ \A v \in DOMAIN comp :
        /\ varinfo'[comp[v]] = varinfo[v]
        /\ varinfo'[v] = varinfo[v]
        /\ \A k \in 0..Len(constraints) :
            IF has_interaction(GetExpr(Model, k), v, v)
            THEN /\ has_interaction(GetExprAfter(k), v, comp[v])
                 /\ quadratic(GetExprAfter(k), v, comp[v]) =
                        IF k > 0 /\ constraints[k].sense = "GE"
                        THEN Neg(quadratic(GetExpr(Model, k), v, v))
                        ELSE quadratic(GetExpr(Model, k), v, v)
            ELSE ~has_interaction(GetExprAfter(k), v, comp[v])
        /\ Cardinality({c \in (Len(constraints) + 1)..Len(constraints') :
                            IsEquality(constraints'[c], v, comp[v])}) = 1

\* C11: a normalize() that returns leaves no self-interaction in the objective
\* or in a constraint; every variable that had one in some expression got
\* exactly one companion (one ADD record each, the companion a copy of the
\* variable's vartype and bounds), every self-interaction became the
\* interaction of the variable with its companion, with the same bias, and
\* exactly one equality v - v' = 0 per such variable was appended behind the
\* constraints the model had.
C11_SelfLoopsRemoved ==
    [][(last'.op = "normalize" /\ last'.outcome = "ok") =>
        /\ SelfLoopVars(Model') = {}
        /\ Len(varinfo') = Len(varinfo) + Cardinality(SelfLoopVars(Model))
        /\ Len(constraints') = Len(constraints) + Cardinality(SelfLoopVars(Model))
        /\ Cardinality({k \in DOMAIN transforms' : transforms'[k].kind = "ADD"}) =
                NumRecords("ADD") + Cardinality(SelfLoopVars(Model))
        /\ \E comp \in [SelfLoopVars(Model) -> (Len(varinfo) + 1)..Len(varinfo')] :
                CompanionsOf(comp)]_vars

\* C11 witness: normalize() has returned on a model in which two variables
\* had self-loops: two companions, two ADD records and two equalities
C11_TwoCompanions ==
    /\ last.op = "normalize"
    /\ last.outcome = "ok"
    /\ ~pre.normalized
    /\ Cardinality(SelfLoopVars([varinfo |-> original.varinfo, objective |-> original.objective,
                                  constraints |-> original.constraints])) = 2
    /\ NumRecords("ADD") = 2
    /\ Len(constraints) = Len(original.constraints) + 2
    /\ \E c \in DOMAIN constraints : IsEquality(constraints[c], 2, 4)

\* the records the step appended to the journal
Journaled == SubSeq(transforms', Len(transforms) + 1, Len(transforms'))

\* the samples of the model held after the step: every variable at its lower
\* bound, or every variable at its upper bound
SamplesAfter ==
    {[v \in DOMAIN varinfo' |-> varinfo'[v].lb], [v \in DOMAIN varinfo' |-> varinfo'[v].ub]}

\* C12: a normalize() that returns leaves no SPIN variable; it journals
\* exactly one record SUBSTITUTE{v, 2, -1} for every variable v that was SPIN
\* and no SUBSTITUTE record for another variable, and restore() through the
\* records of this normalize() gives 2 b - 1 at the position of v for the
\* value b the sample has there.
C12_SpinToBinary ==
    [][(last'.op = "normalize" /\ last'.outcome = "ok") =>
        /\ \A v \in DOMAIN varinfo' : varinfo'[v].vartype # "SPIN"
        /\ \A k \in DOMAIN Journaled :
                Journaled[k].kind = "SUBSTITUTE" =>
                    /\ Journaled[k].v \in DOMAIN varinfo
                    /\ varinfo[Journaled[k].v].vartype = "SPIN"
                    /\ Journaled[k].multiplier = R(2)
                    /\ Journaled[k].offset = R(-1)
        /\ \A v \in DOMAIN varinfo :
                varinfo[v].vartype = "SPIN" =>
                    /\ Cardinality({k \in DOMAIN Journaled :
                            Journaled[k].kind = "SUBSTITUTE" /\ Journaled[k].v = v}) = 1
                    /\ varinfo'[v] = [vartype |-> "BINARY", lb |-> R(0), ub |-> R(1)]
                    /\ \A sample \in SamplesAfter :
                            /\ restore(Journaled, sample).ok
                            /\ restore(Journaled, sample).sample[v] =
                                    Sub(Mul(R(2), sample[v]), R(1))]_vars

\* C12 witness: restore() of the sample with every variable at its upper
\* bound, after normalize() made two SPIN variables BINARY: both are
\* restored at 2 * 1 - 1
C12_SpinsRestored ==
    /\ last.op = "restore"
    /\ last.outcome = "ok"
    /\ Len(original.varinfo) = 2
    /\ \A v \in 1..2 : original.varinfo[v].vartype = "SPIN" /\ varinfo[v].vartype = "BINARY"
    /\ NumRecords("SUBSTITUTE") = 2
    /\ last.sample = <<R(1), R(1)>>
    /\ last.result = <<R(1), R(1)>>

\* the bounds of a variable of an integer-valued vartype are integers
Snapped(info) ==
    IntegerValued(info.vartype) => (info.lb = Ceil(info.lb) /\ info.ub = Floor(info.ub))

MarkersValid ==
    \A c \in DOMAIN constraints :
        constraints[c].discrete =>
            /\ is_onehot(Model, constraints[c])
            /\ \A d \in DOMAIN constraints \ {c} :
                    constraints[d].discrete => ~shares_variables(constraints[c], constraints[d])

\* C14: after a normalize() that returned, and after a presolve() that
\* returned with the techniques loaded, every constraint marked discrete is
\* one-hot and no two constraints marked discrete share a variable.
C14_MarkersValid ==
    (/\ last.outcome = "ok"
     /\ \/ last.op = "normalize"
        \/ last.op = "presolve" /\ techniques = "All") => MarkersValid

\* C14 witness: presolve() has returned on a model whose soft one-hot
\* constraint was marked discrete, validly after normalize(), and lost a
\* variable to a reduction: the constraint is still there, its mark is not
C14_BrokenMarkerCleared ==
    /\ last.op = "presolve"
    /\ last.outcome = "ok"
    /\ techniques = "All"
    /\ \A v \in DOMAIN original.varinfo : original.varinfo[v].vartype = "BINARY"
    /\ \E c \in DOMAIN original.constraints :
            /\ original.constraints[c].soft
            /\ original.constraints[c].discrete
            /\ is_onehot([varinfo |-> original.varinfo], original.constraints[c])
    /\ \E c \in DOMAIN constraints :
            /\ constraints[c].soft
            /\ ~constraints[c].discrete
            /\ num_variables(constraints[c]) = 1

\* constraint c of the held model is marked discrete and is one-hot
ValidlyMarked(c) == constraints[c].discrete /\ is_onehot(Model, constraints[c])

\* C15: when normalize() returns, the first constraint that was marked
\* discrete and one-hot keeps its mark, and every later such constraint that
\* shares a variable with it has lost its mark.
C15_FirstMarkKept ==
    [][(last'.op = "normalize" /\ last'.outcome = "ok") =>
        \A c \in DOMAIN constraints :
            (ValidlyMarked(c) /\ \A b \in 1..(c - 1) : ~ValidlyMarked(b)) =>
                /\ constraints'[c].discrete
                /\ \A d \in (c + 1)..Len(constraints) :
                        (ValidlyMarked(d) /\ shares_variables(constraints[c], constraints[d]))
                            => ~constraints'[d].discrete]_vars

\* the step just taken is one pass of single-variable-constraint elimination
SingleVariablePass == last'.op = "technique_remove_single_variable_constraints"

\* a constraint without variables whose offset and rhs violate its sense
SenseViolated(c) ==
    \/ c.sense = "EQ" /\ c.offset # c.rhs
    \/ c.sense = "LE" /\ Gt(c.offset, c.rhs)
    \/ c.sense = "GE" /\ Lt(c.offset, c.rhs)

HardSingles == {c \in DOMAIN constraints : num_variables(constraints[c]) = 1 /\ ~constraints[c].soft}

\* C16: a pass of single-variable-constraint elimination throws "infeasible"
\* exactly when some constraint without variables is not soft and its offset
\* and rhs violate its sense; otherwise it removes every constraint without
\* variables, soft or not, writes no journal record, and changes no bound
\* unless a constraint on one variable is there to change it.
C16_EmptyConstraints ==
    [][SingleVariablePass =>
        /\ (last'.outcome = "logic_error" /\ last'.msg = "infeasible") <=>
                \E c \in DOMAIN constraints :
                    /\ num_variables(constraints[c]) = 0
                    /\ ~constraints[c].soft
                    /\ SenseViolated(constraints[c])
        /\ last'.outcome \in {"ok", "logic_error"}
        /\ transforms' = transforms
        /\ last'.outcome = "ok" =>
                /\ \A c \in DOMAIN constraints' : num_variables(constraints'[c]) > 0
                /\ HardSingles = {} => varinfo' = varinfo]_vars

\* C16 witness: the pass has thrown "infeasible" on the hard constraint
\* 0 >= 1 of a model that was not normalized, and left it in the model
C16_InfeasibleGE ==
    /\ last.op = "technique_remove_single_variable_constraints"
    /\ last.outcome = "logic_error"
    /\ last.msg = "infeasible"
    /\ ~normalized
    /\ Len(constraints) = 1
    /\ constraints[1].sense = "GE"
    /\ constraints[1].variables = <<>>
    /\ Lt(constraints[1].offset, constraints[1].rhs)

\* t = (rhs - offset) / a of the constraint c on its one variable
BoundOf(c) == Div(Sub(c.rhs, c.offset), c.linear[1])

\* the hard constraints on the one variable v that bound it from above, and
\* those that bound it from below
UpperSingles(v) ==
    {c \in HardSingles :
        /\ constraints[c].variables[1] = v
        /\ \/ constraints[c].sense = "EQ"
           \/ constraints[c].sense = "LE" /\ Gt(constraints[c].linear[1], R(0))
           \/ constraints[c].sense = "GE" /\ Lt(constraints[c].linear[1], R(0))}
LowerSingles(v) ==
    {c \in HardSingles :
        /\ constraints[c].variables[1] = v
        /\ \/ constraints[c].sense = "EQ"
           \/ constraints[c].sense = "LE" /\ Lt(constraints[c].linear[1], R(0))
           \/ constraints[c].sense = "GE" /\ Gt(constraints[c].linear[1], R(0))}

Greatest(S) == CHOOSE x \in S : \A y \in S : Ge(x, y)
Least(S) == CHOOSE x \in S : \A y \in S : Le(x, y)

\* a constraint the pass leaves in place: soft with one variable, or with two
\* or more variables
Stays(c) == num_variables(c) >= 2 \/ (num_variables(c) = 1 /\ c.soft)

\* the bounds, and the biases and offsets of the hard constraints on one
\* variable, are numbers, the bias not 0
SinglesWellDefined ==
    /\ \A v \in DOMAIN varinfo : ~isnan(varinfo[v].lb) /\ ~isnan(varinfo[v].ub)
    /\ \A c \in HardSingles :
        /\ ~isnan(constraints[c].linear[1]) /\ Truthy(constraints[c].linear[1])
        /\ ~isnan(constraints[c].offset)

\* C17: a pass of single-variable-constraint elimination that returns has
\* removed every hard constraint on one variable (and every constraint
\* without variables) and left the other constraints as they were, in their
\* order; the upper bound of a variable is the least of its upper bound and
\* the t = (rhs - offset) / a of its EQ constraints, its LE constraints with
\* a > 0 and its GE constraints with a < 0, its lower bound the greatest of
\* its lower bound and the t of its EQ constraints, its LE constraints with
\* a < 0 and its GE constraints with a > 0.
C17_SingleVariableConstraints ==
    [][(SingleVariablePass /\ last'.outcome = "ok" /\ SinglesWellDefined) =>
        /\ constraints' = SelectSeq(constraints, Stays)
        /\ DOMAIN varinfo' = DOMAIN varinfo
        /\ \A v \in DOMAIN varinfo :
            /\ varinfo'[v].vartype = varinfo[v].vartype
            /\ varinfo'[v].ub =
                    Least({varinfo[v].ub} \cup {BoundOf(constraints[c]) : c \in UpperSingles(v)})
            /\ varinfo'[v].lb =
                    Greatest({varinfo[v].lb} \cup {BoundOf(constraints[c]) : c \in LowerSingles(v)})
        /\ objective' = objective
        /\ last'.ret = (Len(constraints') < Len(constraints))]_vars

\* C17 witness: the pass has removed two hard constraints on the same
\* variable that stood next to each other, 2 v = 6 and -v <= -1, and left
\* the variable with the bounds [3, 3]
C17_AdjacentSinglesRemoved ==
    /\ last.op = "technique_remove_single_variable_constraints"
    /\ last.outcome = "ok"
    /\ Len(original.constraints) = 2
    /\ \A c \in 1..2 : original.constraints[c].variables = <<1>> /\ ~original.constraints[c].soft
    /\ original.constraints[1].sense = "EQ"
    /\ original.constraints[2].sense = "LE"
    /\ constraints = <<>>
    /\ varinfo[1].lb = R(3)
    /\ varinfo[1].ub = R(3)

\* the variables of the held model whose bounds are equal
FixedByBounds == {v \in DOMAIN varinfo : Eq(varinfo[v].lb, varinfo[v].ub)}

\* C18: a pass of remove-fixed-variables journals one FIX record, with the
\* value lb, for every variable that had lb = ub when the pass started, and
\* leaves no variable with lb = ub in the model.
C18_FixedVariablesRemoved ==
    [][(last'.op = "technique_remove_fixed_variables" /\ last'.outcome = "ok") =>
        /\ Len(Journaled) = Cardinality(FixedByBounds)
        /\ \A k \in DOMAIN Journaled : Journaled[k].kind = "FIX"
        /\ Len(varinfo') = Len(varinfo) - Cardinality(FixedByBounds)
        /\ \A v \in DOMAIN varinfo' : ~Eq(varinfo'[v].lb, varinfo'[v].ub)]_vars

\* the constraints domain propagation looks at: linear and not soft
Propagated == {c \in DOMAIN constraints : is_linear(constraints[c]) /\ ~constraints[c].soft}

\* the first variable of the one propagated constraint, its bias, its bounds
\* and its two candidates, all read before the pass
PropagatedConstraint == constraints[CHOOSE c \in Propagated : TRUE]
FirstVariable == PropagatedConstraint.variables[1]
FirstBias == PropagatedConstraint.linear[1]
FirstLb == varinfo[FirstVariable].lb
FirstUb == varinfo[FirstVariable].ub
FirstActivities == get_min_max_activities(Model, PropagatedConstraint, FirstVariable)
FirstPnb1 == Div(Sub(PropagatedConstraint.rhs, FirstActivities.minac), FirstBias)
FirstPnb2 == Div(Sub(PropagatedConstraint.rhs, FirstActivities.maxac), FirstBias)

\* a candidate is active when it is finite and within NEW_BOUND_MAX; it
\* improves an upper bound when it lies below it by more than the threshold,
\* a lower bound when it lies above it by more than the threshold
ActiveCandidate(pnb) == IsFinite(pnb) /\ ~GtInt(RAbs(pnb), NEW_BOUND_MAX)
ImprovesUpper(pnb) == ActiveCandidate(pnb) /\ Improves(Sub(FirstUb, pnb))
ImprovesLower(pnb) == ActiveCandidate(pnb) /\ Improves(Sub(pnb, FirstLb))

RaisedInfeasible == last.outcome = "logic_error" /\ last.msg = "infeasible"

\* the pass ran on a model without NaN whose boxes are not inverted, with one
\* propagated constraint, whose first variable is not BINARY
PropagationPass ==
    /\ last'.op = "technique_domain_propagation"
    /\ ~ModelHasNan
    /\ \A v \in DOMAIN varinfo : Le(varinfo[v].lb, varinfo[v].ub)
    /\ Cardinality(Propagated) = 1
    /\ PropagatedConstraint.variables # <<>>
    /\ varinfo[FirstVariable].vartype # "BINARY"

\* C19: in domain propagation on a linear non-soft constraint, for a
\* non-binary variable v with bias a and an active, improving candidate: with
\* a > 0 the candidate pnb1 raises "infeasible" if pnb1 < lb and otherwise
\* becomes the new ub; with a < 0 pnb1 raises "infeasible" if pnb1 > ub and
\* otherwise becomes the new lb; for EQ the candidate pnb2 likewise updates lb
\* (a > 0, infeasible if pnb2 > ub) or ub (a < 0, infeasible if pnb2 < lb).
\* After the step the updated bound never exceeds its candidate, and the pass
\* returns true exactly when some bound was written.
C19_Candidates ==
    [][PropagationPass =>
        /\ (Gt(FirstBias, R(0)) /\ ImprovesUpper(FirstPnb1)) =>
              IF Lt(FirstPnb1, FirstLb) THEN RaisedInfeasible'
              ELSE varinfo'[FirstVariable].ub = FirstPnb1
        /\ (Lt(FirstBias, R(0)) /\ ImprovesLower(FirstPnb1)) =>
              IF Gt(FirstPnb1, FirstUb) THEN RaisedInfeasible'
              ELSE varinfo'[FirstVariable].lb = FirstPnb1
        /\ (PropagatedConstraint.sense = "EQ" /\ Gt(FirstBias, R(0))
            /\ ImprovesLower(FirstPnb2)
            /\ ~(ImprovesUpper(FirstPnb1) /\ Lt(FirstPnb1, FirstLb))) =>
              IF Gt(FirstPnb2, FirstUb) THEN RaisedInfeasible'
              ELSE varinfo'[FirstVariable].lb = FirstPnb2
        /\ (PropagatedConstraint.sense = "EQ" /\ Lt(FirstBias, R(0))
            /\ ImprovesUpper(FirstPnb2)
            /\ ~(ImprovesLower(FirstPnb1) /\ Gt(FirstPnb1, FirstUb))) =>
              IF Lt(FirstPnb2, FirstLb) THEN RaisedInfeasible'
              ELSE varinfo'[FirstVariable].ub = FirstPnb2
        /\ last'.outcome = "ok" => (last'.ret = (varinfo' # varinfo))]_vars

\* the reduction phase of the last call ran to its end
ReductionExited ==
    /\ last.op \in {"presolve", "apply"}
    /\ last.outcome = "ok"
    /\ techniques = "All"

\* C20: when the reduction phase of apply() or presolve() exits, every
\* constraint of the reduced model has offset 0 and sense EQ or LE, no
\* expression has a self-loop and no variable is SPIN, and a normalize() run
\* at that point reports no change; this includes the models in which
\* remove-fixed-variables has substituted fixed values into constraints.
C20_NormalizedAtExit ==
    ReductionExited =>
        /\ \A c \in DOMAIN constraints :
            /\ constraints[c].offset = R(0)
            /\ constraints[c].sense \in {"EQ", "LE"}
        /\ SelfLoopVars(Model) = {}
        /\ \A v \in DOMAIN varinfo : varinfo[v].vartype # "SPIN"
        /\ ~normalize(Model, <<>>).ret

\* the techniques of a round in the order presolve() calls them
TechniqueOrder ==
    <<"remove_zero_biases", "remove_small_biases", "remove_single_variable_constraints",
      "tighten_bounds", "domain_propagation", "remove_fixed_variables">>

InRound == \E k \in DOMAIN TechniqueOrder : TechniqueOrder[k] = running.pc
PositionInRound == CHOOSE k \in DOMAIN TechniqueOrder : TechniqueOrder[k] = running.pc

\* a step of the driver: from the head of the loop into a pass exactly when
\* fewer than MaxRounds passes have run and the pass before reported a
\* change (or none has run), otherwise out of the loop; from a technique to
\* the next one of the order, or out of presolve() with its exception; from
\* the last technique to the end of the pass, which counts it
DriverOrder ==
    /\ running.pc = "loop" =>
          /\ running'.pc = IF running.num_rounds < MaxRounds
                              /\ (running.changes \/ running.num_rounds = 0)
                           THEN TechniqueOrder[1] ELSE "cleanup"
          /\ running'.num_rounds = running.num_rounds
    /\ (InRound /\ running'.pc # running.pc) =>
          \/ running'.pc = "idle" /\ last'.outcome = "logic_error"
          \/ /\ PositionInRound < Len(TechniqueOrder)
             /\ running'.pc = TechniqueOrder[PositionInRound + 1]
          \/ /\ PositionInRound = Len(TechniqueOrder)
             /\ running'.pc = "end_of_round"
    /\ running.pc = "end_of_round" =>
          /\ running'.pc = "loop"
          /\ running'.num_rounds = running.num_rounds + 1

\* the iteration the walk over the constraints is about to make either
\* removes the constraint at its index, or advances the index, or raises
WalkProgress ==
    (running.pc = "remove_single_variable_constraints" /\ running.c <= Len(constraints)) =>
        \/ single_variable_iteration(WalkState.st, WalkState.c).st.err # ""
        \/ /\ single_variable_iteration(WalkState.st, WalkState.c).st.m.constraints
                    = SeqRemove(constraints, running.c)
           /\ single_variable_iteration(WalkState.st, WalkState.c).c = running.c
        \/ /\ single_variable_iteration(WalkState.st, WalkState.c).st.m.constraints = constraints
           /\ single_variable_iteration(WalkState.st, WalkState.c).c = running.c + 1

\* the iteration the walk over the discrete constraints is about to make
\* either erases the survivor at its index or advances the index
OverlapProgress ==
    (running.pc = "overlap" /\ running.i <= Len(running.discrete)) =>
        \/ /\ markers_overlap_iteration(OverlapState.st, OverlapState.i).st.discrete
                    = SeqRemove(running.discrete, running.i)
           /\ markers_overlap_iteration(OverlapState.st, OverlapState.i).i = running.i
        \/ /\ markers_overlap_iteration(OverlapState.st, OverlapState.i).st.discrete
                    = running.discrete
           /\ markers_overlap_iteration(OverlapState.st, OverlapState.i).i = running.i + 1

====
